---- MODULE Spec2Model ----
(***************************************************************************)
(* cefrpy: the packed CEFR word index.                                     *)
(*                                                                         *)
(*   CEFRDataValidator  - structural checks of a (partition table, data)   *)
(*                        pair                                             *)
(*   CEFRDataReader     - owns the two buffers, bounds-checked accessors   *)
(*   CEFRDataProcessor  - binary search, run scans, counts, traversals     *)
(*                                                                         *)
(* Bytes are integers 0..255.  Python positions are 0-based; TLA+          *)
(* sequences are 1-based, so the accessors read element i + 1.             *)
(* A float level is kept exactly, in fiftieths: 1.0 is 50 and 6.0 is 300.  *)
(* An exception leaving a helper is an integer sentinel below every byte   *)
(* and every position; an operation's outcome is a record                  *)
(* [exc |-> name, val |-> value] with exc = "none" for a normal return.    *)
(***************************************************************************)
EXTENDS Integers, Sequences, FiniteSets, TLC

VARIABLES
    wlp,    \* CEFRDataReader._wlp: the partition table
    data,   \* CEFRDataReader._data_array: the data array
    op,     \* name of the operation whose result is held, or "idle"
    arg,    \* the arguments of that operation
    ret,    \* its outcome
    gens    \* the frames of the generator objects and searches under way

vars == <<wlp, data, op, arg, ret, gens>>

----------------------------------------------------------------------------
(* Bounds of the model *)

\* longest word length of the generated indexes (partition length - 1)
MaxWordLen == 2

\* largest number of bytes in the data array of a generated index
MaxDataLen == 10

\* largest number of bytes in a data array handed to the validator, and
\* largest offset in a partition table handed to it
MaxRawLen == 7

\* largest number of offsets of the short partition tables handed to the validator
MaxTableLen == 3

(* Input alphabets *)

\* word bytes of generated indexes and queries: 'a', 'b'
Letters == {97, 98}

\* category bytes stored in generated indexes
StoredPos == {1, 27}

\* packed level bytes stored in generated indexes; the validator lets a level
\* byte above 250 pass, so an accepted file may hold one
StoredLevels == {125, 250, 255}

----------------------------------------------------------------------------
(* Outcomes *)

\* the value Python's None is modelled by, where a level or a range is expected
None == -1

\* IndexError leaving a helper that returns an integer
IndexError == -2

\* ValueError leaving byte_int_level_to_float
ValueError == -3

\* math.inf as a category id: greater than every byte
PosInf == 256

Return(v) == [exc |-> "none", val |-> v]

Raise(e) == [exc |-> e, val |-> 0]

\* outcome of an operation whose integer result may be an exception sentinel
Outcome(v) ==
    IF v = IndexError THEN Raise("IndexError")
    ELSE IF v = ValueError THEN Raise("ValueError")
    ELSE Return(v)

NoArg == [none |-> TRUE]

----------------------------------------------------------------------------
(* CEFRDataReader *)

\* get_wlp_value_at without the lower bound: Python's own indexing, which
\* counts a negative index from the end
get_wlp_value_at_wrapping(i) ==
    IF 0 <= i /\ i < Len(wlp) THEN wlp[i + 1]
    ELSE IF -Len(wlp) <= i /\ i < 0 THEN wlp[Len(wlp) + i + 1]
    ELSE IndexError

get_wlp_value_at(i) ==
    IF 0 <= i /\ i < Len(wlp) THEN wlp[i + 1] ELSE IndexError

get_data_array_value_at(i) ==
    IF 0 <= i /\ i < Len(data) THEN data[i + 1] ELSE IndexError

get_wlp_len == Len(wlp)

get_data_array_len == Len(data)

----------------------------------------------------------------------------
(* CEFRDataValidator *)

\* VALID_WORD_CHARACTERS = set(ascii_lowercase): 'a'..'z'
VALID_WORD_CHARACTERS == 97..122

\* POSTag.get_total_tags(): the enumeration has 28 members
get_total_tags == 28

MAX_POS_TAG_ID == get_total_tags - 1

MAX_LEVEL_VALUE == 6 * 50

is_wlp_length_valid(wlp_length) == 2 <= wlp_length /\ wlp_length <= 255

\* wlp_pair_fails with a block size that is never incremented
wlp_pair_fails_fixed_block(wlp_array, k) ==
    LET sector_start == wlp_array[k]
        sector_end   == wlp_array[k + 1]
        block_size   == 3
    IN  \/ sector_end < sector_start
        \/ (sector_end - sector_start) % block_size # 0

\* the body of the loop of is_wlp_array_valid at its k-th iteration, which
\* compares wlp_array[k - 1] and wlp_array[k] (0-based) after block_size,
\* started at 2, has been incremented k times: TRUE when it returns False
wlp_pair_fails(wlp_array, k) ==
    LET sector_start == wlp_array[k]
        sector_end   == wlp_array[k + 1]
        block_size   == 2 + k
    IN  \/ sector_end < sector_start
        \/ (sector_end - sector_start) % block_size # 0

\* the loop returns False at the first failing pair, True when there is none
is_wlp_array_valid(wlp_array) ==
    IF ~is_wlp_length_valid(Len(wlp_array)) THEN FALSE
    ELSE ~\E k \in 1..(Len(wlp_array) - 1) : wlp_pair_fails(wlp_array, k)

\* d[i] of a bytearray for i >= 0
ByteAt(d, i) == IF 0 <= i /\ i < Len(d) THEN d[i + 1] ELSE IndexError

\* the word loop of validate_data_block from position i on
RECURSIVE block_word_valid(_, _, _)
block_word_valid(d, i, stop) ==
    IF i >= stop THEN Return(TRUE)
    ELSE IF ByteAt(d, i) = IndexError THEN Raise("IndexError")
    ELSE IF ByteAt(d, i) \notin VALID_WORD_CHARACTERS THEN Return(FALSE)
    ELSE block_word_valid(d, i + 1, stop)

validate_data_block(d, start_pos, block_length) ==
    LET word_len == block_length - 2
        i        == start_pos + word_len - 1
        w        == block_word_valid(d, start_pos, start_pos + word_len)
    IN  IF w.exc # "none" \/ ~w.val THEN w
        ELSE IF ByteAt(d, i + 1) = IndexError THEN Raise("IndexError")
        ELSE IF ByteAt(d, i + 1) > MAX_POS_TAG_ID THEN Return(FALSE)
        ELSE IF ByteAt(d, i + 2) = IndexError THEN Raise("IndexError")
        ELSE IF ByteAt(d, i + 2) > MAX_LEVEL_VALUE THEN Return(FALSE)
        ELSE Return(TRUE)

\* sector_blocks_valid that leaves the last block of the sector unchecked
RECURSIVE sector_blocks_valid_short(_, _, _, _)
sector_blocks_valid_short(d, start_block_pos, sector_end, block_size) ==
    IF start_block_pos + block_size >= sector_end THEN Return(TRUE)
    ELSE LET b == validate_data_block(d, start_block_pos, block_size)
         IN  IF b.exc # "none" \/ ~b.val THEN b
             ELSE sector_blocks_valid_short(d, start_block_pos + block_size,
                                            sector_end, block_size)

\* the inner loop of is_data_valid over one sector
RECURSIVE sector_blocks_valid(_, _, _, _)
sector_blocks_valid(d, start_block_pos, sector_end, block_size) ==
    IF start_block_pos >= sector_end THEN Return(TRUE)
    ELSE LET b == validate_data_block(d, start_block_pos, block_size)
         IN  IF b.exc # "none" \/ ~b.val THEN b
             ELSE sector_blocks_valid(d, start_block_pos + block_size,
                                      sector_end, block_size)

\* an outcome that is a normal return of True
Passed(o) == o.exc = "none" /\ o.val

\* the k-th iteration of the outer loop of is_data_valid: the blocks of the
\* sector between wlp_array[k - 1] and wlp_array[k] (0-based), block_size 2 + k
sector_valid(wlp_array, d, k) ==
    sector_blocks_valid(d, wlp_array[k], wlp_array[k + 1], 2 + k)

\* is_data_valid without the comparison of the last offset with len(data)
is_data_valid_unbounded(wlp_array, d) ==
    IF ~is_wlp_array_valid(wlp_array) THEN Return(FALSE)
    ELSE LET stopped == {k \in 1..(Len(wlp_array) - 1) :
                            ~Passed(sector_valid(wlp_array, d, k))}
         IN  IF stopped = {} THEN Return(TRUE)
             ELSE sector_valid(wlp_array, d,
                               CHOOSE k \in stopped : \A j \in stopped : k <= j)

\* the outer loop ends at the first sector that does not pass
is_data_valid(wlp_array, d) ==
    IF ~is_wlp_array_valid(wlp_array) THEN Return(FALSE)
    ELSE IF wlp_array[Len(wlp_array)] > Len(d) THEN Return(FALSE)
    ELSE LET stopped == {k \in 1..(Len(wlp_array) - 1) :
                            ~Passed(sector_valid(wlp_array, d, k))}
         IN  IF stopped = {} THEN Return(TRUE)
             ELSE sector_valid(wlp_array, d,
                               CHOOSE k \in stopped : \A j \in stopped : k <= j)

----------------------------------------------------------------------------
(* CEFRDataReader: construction from the bytes of the database file *)

\* file.read(n) at offset pos: the next n bytes, fewer at the end of the file
file_read(file, pos, n) ==
    SubSeq(file, pos + 1, IF pos + n < Len(file) THEN pos + n ELSE Len(file))

\* one unsigned 32-bit item of array('I') from its four bytes, in the byte
\* order of the producing machine (least significant byte first)
unpack_I(b) == b[1] + 256 * b[2] + 65536 * b[3] + 16777216 * b[4]

\* array('I').frombytes on a whole number of items
frombytes(bytes) ==
    [k \in 1..(Len(bytes) \div 4) |-> unpack_I(SubSeq(bytes, 4 * k - 3, 4 * k))]

\* the outcome of a read: what _read_data returns or raises, and the buffers
\* it has filled by then
ReadResult(exc, val, w, d) == [exc |-> exc, val |-> val, wlp |-> w, data |-> d]

\* _read_data that returns True for whatever it has read
_read_data_unvalidated(file) ==
    LET first == file_read(file, 0, 1)
    IN  IF Len(first) < 1 THEN ReadResult("struct.error", FALSE, <<>>, <<>>)
        ELSE LET wlp_len == first[1]
                 wlp_data == file_read(file, 1, wlp_len * 4)
             IN  IF ~is_wlp_length_valid(wlp_len)
                 THEN ReadResult("none", FALSE, <<>>, <<>>)
                 ELSE IF Len(wlp_data) % 4 # 0
                 THEN ReadResult("ValueError", FALSE, <<>>, <<>>)
                 ELSE ReadResult("none", TRUE, frombytes(wlp_data),
                                 file_read(file, 1 + Len(wlp_data), Len(file)))

\* struct.unpack('B', ...) of an empty read raises struct.error; frombytes of
\* a byte count that is no multiple of 4 raises ValueError; the rest of the
\* file is the data array
_read_data(file) ==
    LET first == file_read(file, 0, 1)
    IN  IF Len(first) < 1 THEN ReadResult("struct.error", FALSE, <<>>, <<>>)
        ELSE LET wlp_len == first[1]
                 wlp_data == file_read(file, 1, wlp_len * 4)
             IN  IF ~is_wlp_length_valid(wlp_len)
                 THEN ReadResult("none", FALSE, <<>>, <<>>)
                 ELSE IF Len(wlp_data) % 4 # 0
                 THEN ReadResult("ValueError", FALSE, <<>>, <<>>)
                 ELSE LET w == frombytes(wlp_data)
                          d == file_read(file, 1 + Len(wlp_data), Len(file))
                          valid == is_data_valid(w, d)
                      IN  ReadResult(valid.exc, valid.val, w, d)

\* CEFRDataReader(data_path) on a file with these bytes: the fields of the
\* object and whether the constructor returns it or raises
__init__(file) ==
    LET read == _read_data(file)
    IN  [wlp  |-> read.wlp,
         data |-> read.data,
         ret  |-> IF read.exc # "none" THEN Raise(read.exc)
                  ELSE IF ~read.val THEN Raise("Exception")
                  ELSE Return(TRUE)]

----------------------------------------------------------------------------
(* Generated indexes: files the Reader accepts whose segments are sorted  *)

\* all byte sequences of length n over the set S
SeqsOfLen(S, n) == [1..n -> S]

\* lexicographic order of two byte sequences of equal length
RECURSIVE LexLess(_, _, _)
LexLess(a, b, j) ==
    IF j > Len(a) THEN FALSE
    ELSE IF a[j] < b[j] THEN TRUE
    ELSE IF a[j] > b[j] THEN FALSE
    ELSE LexLess(a, b, j + 1)

\* the blocks a segment of word length L may hold
BlocksOfLen(L) ==
    {w \o <<p, v>> : w \in SeqsOfLen(Letters, L), p \in StoredPos, v \in StoredLevels}

\* key of a block: its word bytes and its category byte
BlockKey(b) == SubSeq(b, 1, Len(b) - 1)

\* segments of word length L with at most n blocks, strictly ascending by
\* (word, category); a segment is a sequence of blocks
RECURSIVE SortedSegments(_, _)
SortedSegments(L, n) ==
    IF n = 0 THEN {<<>>}
    ELSE LET prev == SortedSegments(L, n - 1)
         IN  prev \cup
             {Append(s, b) : <<s, b>> \in
                 {sb \in {t \in prev : Len(t) = n - 1} \X BlocksOfLen(L) :
                     \/ Len(sb[1]) = 0
                     \/ LexLess(BlockKey(sb[1][Len(sb[1])]), BlockKey(sb[2]), 1)}}

RECURSIVE Flatten(_)
Flatten(seg) == IF seg = <<>> THEN <<>> ELSE Head(seg) \o Flatten(Tail(seg))

\* files with segments for word lengths 1..L: the table starts at offset 0
\* and the data array ends at the final offset
RECURSIVE IndexFiles(_)
IndexFiles(L) ==
    IF L = 0 THEN {[wlp |-> <<0>>, data |-> <<>>]}
    ELSE {[wlp  |-> Append(f.wlp, Len(f.data) + Len(Flatten(seg))),
           data |-> f.data \o Flatten(seg)] :
             <<f, seg>> \in
               {fs \in IndexFiles(L - 1) \X SortedSegments(L, MaxDataLen \div (L + 2)) :
                   Len(fs[1].data) + Len(fs[2]) * (L + 2) <= MaxDataLen}}

Init ==
    /\ \E f \in IndexFiles(MaxWordLen) :
          /\ Passed(is_data_valid(f.wlp, f.data))
          /\ wlp = f.wlp
          /\ data = f.data
    /\ op = "idle"
    /\ arg = NoArg
    /\ ret = Return(0)
    /\ gens = <<>>

----------------------------------------------------------------------------
(* CEFRDataProcessor *)

get_max_word_len == get_wlp_len - 1

\* is_word_len_valid that takes the partition length itself for a word length
is_word_len_valid_inclusive(word_len) == 0 < word_len /\ word_len <= get_wlp_len

is_word_len_valid(word_len) == 0 < word_len /\ word_len < get_wlp_len

\* pack_word: struct.pack('B' * len(word), *map(ord, word)); a word is the
\* sequence of its code points and packs to the same bytes when each fits a byte
StructError == -4

pack_word(word) ==
    IF \A j \in 1..Len(word) : 0 <= word[j] /\ word[j] <= 255
    THEN [j \in 1..Len(word) |-> word[j]]
    ELSE <<StructError>>

\* the comparison loop of _get_first_word_match_pos at block m, from word
\* byte j on: "lt" when the block byte is smaller (l moves), "gt" when it is
\* greater (r moves), "eq" when every byte matched
RECURSIVE compare_block(_, _, _)
compare_block(word_packed, m, j) ==
    IF j > Len(word_packed) THEN "eq"
    ELSE LET c1 == word_packed[j]
             c2 == get_data_array_value_at(m + j - 1)
         IN  IF c2 = IndexError THEN "IndexError"
             ELSE IF c2 < c1 THEN "lt"
             ELSE IF c2 > c1 THEN "gt"
             ELSE compare_block(word_packed, m, j + 1)

\* midpoint of the interval [l, r], rounded down to a block boundary
midpoint(l, r, data_block_len) ==
    (((r - l) \div data_block_len) \div 2) * data_block_len + l

\* the while loop of _get_first_word_match_pos
RECURSIVE first_match_loop(_, _, _)
first_match_loop(word_packed, l, r) ==
    IF ~(l <= r) THEN -1
    ELSE LET data_block_len == Len(word_packed) + 2
             m == midpoint(l, r, data_block_len)
             c == compare_block(word_packed, m, 1)
         IN  CASE c = "eq" -> m
               [] c = "IndexError" -> IndexError
               [] c = "lt" -> first_match_loop(word_packed, m + data_block_len, r)
               [] c = "gt" -> first_match_loop(word_packed, l, m - data_block_len)

_get_first_word_match_pos(word_packed) ==
    LET word_packed_len == Len(word_packed)
        l == get_wlp_value_at(word_packed_len - 1)
        r == get_wlp_value_at(word_packed_len)
    IN  IF l = IndexError \/ r = IndexError THEN IndexError
        ELSE first_match_loop(word_packed, l, r)

is_word_in_database(word) ==
    IF ~is_word_len_valid(Len(word)) THEN Return(FALSE)
    ELSE LET first_match == _get_first_word_match_pos(pack_word(word))
         IN  IF first_match = IndexError THEN Raise("IndexError")
             ELSE Return(first_match # -1)

\* the for ... else loop of the run scans at block m, from word byte j on:
\* the position i at which the loop stops, m + Len(word_packed) when every
\* byte matched (the else branch runs)
RECURSIVE scan_block(_, _, _)
scan_block(word_packed, m, j) ==
    IF j > Len(word_packed) THEN m + Len(word_packed)
    ELSE LET c == get_data_array_value_at(m + j - 1)
         IN  IF c = IndexError THEN IndexError
             ELSE IF c # word_packed[j] THEN m + j - 1
             ELSE scan_block(word_packed, m, j + 1)

\* state of a run scan: the exact-match level found (None while there is
\* none), founded_pos and level_accumulator
ScanState(hit, founded_pos, level_accumulator) ==
    [hit |-> hit, founded_pos |-> founded_pos, level_accumulator |-> level_accumulator]

\* the backward loop taken when the landed category is greater than pos_tag_id
RECURSIVE backward_match_scan(_, _, _, _, _)
backward_match_scan(word_packed, m0, start_segment_pos, pos_tag_id, st) ==
    LET m == m0 - (Len(word_packed) + 2)
    IN  IF m < start_segment_pos THEN st
        ELSE LET i == scan_block(word_packed, m, 1)
             IN  IF i = IndexError THEN ScanState(IndexError, 0, 0)
                 ELSE IF i # m + Len(word_packed) THEN st
                 ELSE LET p     == get_data_array_value_at(i)
                          level == get_data_array_value_at(i + 1)
                      IN  IF p = IndexError \/ level = IndexError
                          THEN ScanState(IndexError, 0, 0)
                          ELSE IF p = pos_tag_id THEN ScanState(level, 0, 0)
                          ELSE backward_match_scan(word_packed, m, start_segment_pos, pos_tag_id,
                                   ScanState(None, st.founded_pos + 1,
                                             st.level_accumulator + level))

\* the forward loop taken otherwise
RECURSIVE forward_match_scan(_, _, _, _, _)
forward_match_scan(word_packed, m0, end_segment_pos, pos_tag_id, st) ==
    LET m == m0 + (Len(word_packed) + 2)
    IN  IF m >= end_segment_pos THEN st
        ELSE LET i == scan_block(word_packed, m, 1)
             IN  IF i = IndexError THEN ScanState(IndexError, 0, 0)
                 ELSE IF i # m + Len(word_packed) THEN st
                 ELSE LET p     == get_data_array_value_at(i)
                          level == get_data_array_value_at(i + 1)
                      IN  IF p = IndexError \/ level = IndexError
                          THEN ScanState(IndexError, 0, 0)
                          ELSE IF p = pos_tag_id THEN ScanState(level, 0, 0)
                          ELSE forward_match_scan(word_packed, m, end_segment_pos, pos_tag_id,
                                   ScanState(None, st.founded_pos + 1,
                                             st.level_accumulator + level))

\* the backward loop that follows the forward loop: it only accumulates
RECURSIVE backward_sum_scan(_, _, _, _)
backward_sum_scan(word_packed, m0, start_segment_pos, st) ==
    LET m == m0 - (Len(word_packed) + 2)
    IN  IF m < start_segment_pos THEN st
        ELSE LET i == scan_block(word_packed, m, 1)
             IN  IF i = IndexError THEN ScanState(IndexError, 0, 0)
                 ELSE IF i # m + Len(word_packed) THEN st
                 ELSE LET level == get_data_array_value_at(i + 1)
                      IN  IF level = IndexError THEN ScanState(IndexError, 0, 0)
                          ELSE backward_sum_scan(word_packed, m, start_segment_pos,
                                   ScanState(None, st.founded_pos + 1,
                                             st.level_accumulator + level))

\* Python's round(n / d) for integers n >= 0, d > 0: to the nearest integer,
\* a tie to the even one
round_div(n, d) ==
    LET q == n \div d
        r == n % d
    IN  IF 2 * r < d THEN q
        ELSE IF 2 * r > d THEN q + 1
        ELSE IF q % 2 = 0 THEN q ELSE q + 1

_get_int_word_level_for_pos_id(word_packed, pos_tag_id, avg_level_not_found_pos) ==
    LET first_match == _get_first_word_match_pos(word_packed)
        word_packed_len == Len(word_packed)
        i     == first_match + word_packed_len
        p     == get_data_array_value_at(i)
        level == get_data_array_value_at(i + 1)
        start_segment_pos == get_wlp_value_at(word_packed_len - 1)
        end_segment_pos   == get_wlp_value_at(word_packed_len)
        st0 == ScanState(None, 1, level)
        st  == IF p > pos_tag_id
               THEN backward_match_scan(word_packed, first_match, start_segment_pos,
                                        pos_tag_id, st0)
               ELSE LET f == forward_match_scan(word_packed, first_match, end_segment_pos,
                                                pos_tag_id, st0)
                    IN  IF f.hit # None THEN f
                        ELSE backward_sum_scan(word_packed, first_match,
                                               start_segment_pos, f)
    IN  IF first_match = IndexError THEN IndexError
        ELSE IF first_match = -1 THEN None
        ELSE IF p = IndexError \/ level = IndexError THEN IndexError
        ELSE IF p = pos_tag_id THEN level
        ELSE IF st.hit # None THEN st.hit
        ELSE IF avg_level_not_found_pos
             THEN round_div(st.level_accumulator, st.founded_pos)
             ELSE None

\* byte_int_level_to_float that clamps its argument into 0..250
byte_int_level_to_float_clamped(level) ==
    IF level < 0 THEN 50 ELSE IF level > 250 THEN 300 ELSE level + 50

\* level / 50 + 1, in fiftieths
byte_int_level_to_float(level) ==
    IF 0 <= level /\ level <= 250 THEN level + 50 ELSE ValueError

get_word_level_for_pos_id(word, pos_tag_id, avg_level_not_found_pos) ==
    IF ~is_word_len_valid(Len(word)) THEN Return(None)
    ELSE LET level == _get_int_word_level_for_pos_id(pack_word(word), pos_tag_id,
                                                     avg_level_not_found_pos)
         IN  IF level = IndexError THEN Raise("IndexError")
             ELSE IF level # None THEN Outcome(byte_int_level_to_float(level))
             ELSE Return(None)

is_word_pos_id_database(word, pos_tag_id) ==
    LET r == get_word_level_for_pos_id(word, pos_tag_id, FALSE)
    IN  IF r.exc # "none" THEN r ELSE Return(r.val # None)

\* the positions of Python's range(start, stop, step), step # 0
RECURSIVE py_range(_, _, _)
py_range(start, stop, step) ==
    IF (step > 0 /\ start >= stop) \/ (step < 0 /\ start <= stop) THEN <<>>
    ELSE <<start>> \o py_range(start + step, stop, step)

\* the two loop variables of _get_word_data_range
RangeScan(m, i) == [m |-> m, i |-> i]

\* its backward loop, entered with m and i as the previous iteration left them
RECURSIVE backward_range_scan(_, _, _, _)
backward_range_scan(word_packed, m0, i0, start_segment_pos) ==
    LET m == m0 - (Len(word_packed) + 2)
    IN  IF m < start_segment_pos THEN RangeScan(m, i0)
        ELSE LET i == scan_block(word_packed, m, 1)
             IN  IF i = IndexError THEN RangeScan(m, IndexError)
                 ELSE IF i = m + Len(word_packed)
                      THEN backward_range_scan(word_packed, m, i, start_segment_pos)
                      ELSE RangeScan(m, i)

\* its forward loop
RECURSIVE forward_range_scan(_, _, _, _)
forward_range_scan(word_packed, m0, i0, end_segment_pos) ==
    LET m == m0 + (Len(word_packed) + 2)
    IN  IF m >= end_segment_pos THEN RangeScan(m, i0)
        ELSE LET i == scan_block(word_packed, m, 1)
             IN  IF i = IndexError THEN RangeScan(m, IndexError)
                 ELSE IF i = m + Len(word_packed)
                      THEN forward_range_scan(word_packed, m, i, end_segment_pos)
                      ELSE RangeScan(m, i)

\* the result of _get_word_data_range: kind "None", "range" or "IndexError"
DataRange(kind, positions) == [kind |-> kind, positions |-> positions]

_get_word_data_range(word) ==
    IF ~is_word_len_valid(Len(word)) THEN DataRange("None", <<>>)
    ELSE
    LET word_packed == pack_word(word)
        first_match == _get_first_word_match_pos(word_packed)
        word_packed_len == Len(word_packed)
        data_block_len  == word_packed_len + 2
        start_segment_pos == get_wlp_value_at(word_packed_len - 1)
        end_segment_pos   == get_wlp_value_at(word_packed_len)
        back == backward_range_scan(word_packed, first_match,
                                    first_match + word_packed_len, start_segment_pos)
        start_range == back.m + data_block_len + word_packed_len
        forw == forward_range_scan(word_packed, first_match, back.i, end_segment_pos)
        end_range == forw.i - data_block_len + word_packed_len + 1
    IN  IF first_match = IndexError THEN DataRange("IndexError", <<>>)
        ELSE IF first_match = -1 THEN DataRange("None", <<>>)
        ELSE IF back.i = IndexError \/ forw.i = IndexError
             THEN DataRange("IndexError", <<>>)
        ELSE DataRange("range", py_range(start_range, end_range, data_block_len))

\* the loop of get_all_pos_for_word over the positions from the k-th on
RECURSIVE pos_list_from(_, _, _)
pos_list_from(positions, k, pos_list) ==
    IF k > Len(positions) THEN Return(pos_list)
    ELSE LET pos_tag == get_data_array_value_at(positions[k])
         IN  IF pos_tag = IndexError THEN Raise("IndexError")
             ELSE pos_list_from(positions, k + 1, Append(pos_list, pos_tag))

get_all_pos_for_word(word) ==
    LET data_range == _get_word_data_range(word)
    IN  IF data_range.kind = "IndexError" THEN Raise("IndexError")
        ELSE IF data_range.kind = "None" THEN Return(<<>>)
        ELSE pos_list_from(data_range.positions, 1, <<>>)

\* result[key] = value of a dict kept as a function
DictSet(result, key, value) ==
    [x \in (DOMAIN result) \cup {key} |-> IF x = key THEN value ELSE result[x]]

\* the loop of get_pos_level_dict_for_word over the positions from the k-th on
RECURSIVE pos_level_dict_from(_, _, _)
pos_level_dict_from(positions, k, result) ==
    IF k > Len(positions) THEN Return(result)
    ELSE LET pos_tag == get_data_array_value_at(positions[k])
             level   == get_data_array_value_at(positions[k] + 1)
             word_level_float == byte_int_level_to_float(level)
         IN  IF pos_tag = IndexError \/ level = IndexError THEN Raise("IndexError")
             ELSE IF word_level_float = ValueError THEN Raise("ValueError")
             ELSE pos_level_dict_from(positions, k + 1,
                                      DictSet(result, pos_tag, word_level_float))

get_pos_level_dict_for_word(word) ==
    LET data_range == _get_word_data_range(word)
    IN  IF data_range.kind = "IndexError" THEN Raise("IndexError")
        ELSE IF data_range.kind = "None" THEN Return(<<>>)
        ELSE pos_level_dict_from(data_range.positions, 1, <<>>)

\* chr() of the word_length bytes from position i on: the word as the
\* sequence of its code points
RECURSIVE _unpack_word_in_data_array(_, _)
_unpack_word_in_data_array(i, word_length) ==
    IF word_length <= 0 THEN <<>>
    ELSE LET c == get_data_array_value_at(i)
             rest == _unpack_word_in_data_array(i + 1, word_length - 1)
         IN  IF c = IndexError \/ rest = <<IndexError>> THEN <<IndexError>>
             ELSE <<c>> \o rest

\* _get_word_yield_start_block_range whose reverse range starts at the
\* segment end instead of the last block
_get_word_yield_start_block_range_from_end(word_length, reverse_order) ==
    LET segment_start == get_wlp_value_at(word_length - 1)
        segment_end   == get_wlp_value_at(word_length)
        data_block_len == word_length + 2
    IN  IF reverse_order
        THEN py_range(segment_end, segment_start, -data_block_len)
        ELSE py_range(segment_start, segment_end, data_block_len)

_get_word_yield_start_block_range(word_length, reverse_order) ==
    LET segment_start == get_wlp_value_at(word_length - 1)
        segment_end   == get_wlp_value_at(word_length)
        data_block_len == word_length + 2
    IN  IF reverse_order
        THEN py_range(segment_end - data_block_len, segment_start - data_block_len,
                      -data_block_len)
        ELSE py_range(segment_start, segment_end, data_block_len)

\* words_from that yields the word of every block, repeated or not
RECURSIVE words_from_every_block(_, _, _, _, _)
words_from_every_block(blocks, k, word_length, last_word, yielded) ==
    IF k > Len(blocks) THEN Return(yielded)
    ELSE LET word == _unpack_word_in_data_array(blocks[k], word_length)
         IN  IF word = <<IndexError>> THEN Raise("IndexError")
             ELSE words_from_every_block(blocks, k + 1, word_length, word,
                                         Append(yielded, word))

\* the loop of yield_words_with_length from the k-th block start on; last_word
\* is <<None>> before the first word; the value is the sequence of words yielded
RECURSIVE words_from(_, _, _, _, _)
words_from(blocks, k, word_length, last_word, yielded) ==
    IF k > Len(blocks) THEN Return(yielded)
    ELSE LET word == _unpack_word_in_data_array(blocks[k], word_length)
         IN  IF word = <<IndexError>> THEN Raise("IndexError")
             ELSE IF word # last_word
                  THEN words_from(blocks, k + 1, word_length, word, Append(yielded, word))
                  ELSE words_from(blocks, k + 1, word_length, last_word, yielded)

\* every item of the generator, in the order it yields them
yield_words_with_length(word_length, reverse_order) ==
    IF ~is_word_len_valid(word_length) THEN Return(<<>>)
    ELSE words_from(_get_word_yield_start_block_range(word_length, reverse_order),
                    1, word_length, <<None>>, <<>>)

RECURSIVE word_pos_id_from(_, _, _, _)
word_pos_id_from(blocks, k, word_length, yielded) ==
    IF k > Len(blocks) THEN Return(yielded)
    ELSE LET word == _unpack_word_in_data_array(blocks[k], word_length)
             word_pos == get_data_array_value_at(blocks[k] + word_length)
         IN  IF word = <<IndexError>> \/ word_pos = IndexError THEN Raise("IndexError")
             ELSE word_pos_id_from(blocks, k + 1, word_length,
                                   Append(yielded, <<word, word_pos>>))

yield_word_pos_id_with_length(word_length, reverse_order) ==
    IF ~is_word_len_valid(word_length) THEN Return(<<>>)
    ELSE word_pos_id_from(_get_word_yield_start_block_range(word_length, reverse_order),
                          1, word_length, <<>>)

RECURSIVE word_pos_level_from(_, _, _, _)
word_pos_level_from(blocks, k, word_length, yielded) ==
    IF k > Len(blocks) THEN Return(yielded)
    ELSE LET word == _unpack_word_in_data_array(blocks[k], word_length)
             j == blocks[k] + word_length
             word_pos == get_data_array_value_at(j)
             word_level == get_data_array_value_at(j + 1)
             word_level_float == byte_int_level_to_float(word_level)
         IN  IF word = <<IndexError>> \/ word_pos = IndexError \/ word_level = IndexError
             THEN Raise("IndexError")
             ELSE IF word_level_float = ValueError THEN Raise("ValueError")
             ELSE word_pos_level_from(blocks, k + 1, word_length,
                                      Append(yielded, <<word, word_pos, word_level_float>>))

yield_word_pos_level_with_length(word_length, reverse_order) ==
    IF ~is_word_len_valid(word_length) THEN Return(<<>>)
    ELSE word_pos_level_from(_get_word_yield_start_block_range(word_length, reverse_order),
                             1, word_length, <<>>)

\* one block of get_word_count_for_length, from byte j (0-based) on: the
\* first byte that differs from last_word counts a new word and the rest of
\* the block is copied
RECURSIVE count_block(_, _, _, _, _)
count_block(i, j, word_length, last_word, unique_words_counter) ==
    IF j >= word_length THEN [last_word |-> last_word, counter |-> unique_words_counter]
    ELSE LET current_char == get_data_array_value_at(i + j)
         IN  IF current_char = IndexError
             THEN [last_word |-> last_word, counter |-> IndexError]
             ELSE IF current_char # last_word[j + 1]
             THEN LET copied == [k \in 1..word_length |->
                                    IF k <= j THEN last_word[k]
                                    ELSE get_data_array_value_at(i + k - 1)]
                  IN  IF \E k \in 1..word_length : copied[k] = IndexError
                      THEN [last_word |-> last_word, counter |-> IndexError]
                      ELSE [last_word |-> copied, counter |-> unique_words_counter + 1]
             ELSE count_block(i, j + 1, word_length, last_word, unique_words_counter)

RECURSIVE count_from(_, _, _, _, _)
count_from(blocks, k, word_length, last_word, unique_words_counter) ==
    IF k > Len(blocks) THEN unique_words_counter
    ELSE LET b == count_block(blocks[k], 0, word_length, last_word, unique_words_counter)
         IN  IF b.counter = IndexError THEN IndexError
             ELSE count_from(blocks, k + 1, word_length, b.last_word, b.counter)

\* get_word_count_for_length that counts every block
get_word_count_for_length_every_block(word_length) ==
    IF ~is_word_len_valid(word_length) THEN Return(0)
    ELSE Return(Len(_get_word_yield_start_block_range(word_length, FALSE)))

get_word_count_for_length(word_length) ==
    IF ~is_word_len_valid(word_length) THEN Return(0)
    ELSE Outcome(count_from(_get_word_yield_start_block_range(word_length, FALSE), 1,
                            word_length, [k \in 1..word_length |-> 0], 0))

\* a < b on two str objects: the first differing character decides, and a
\* proper prefix is less than the longer word
RECURSIVE str_lt(_, _, _)
str_lt(a, b, j) ==
    IF j > Len(a) THEN j <= Len(b)
    ELSE IF j > Len(b) THEN FALSE
    ELSE IF a[j] < b[j] THEN TRUE
    ELSE IF a[j] > b[j] THEN FALSE
    ELSE str_lt(a, b, j + 1)

\* an entry of words_heap: the item and the index of its generator
HeapEntry(item, generator_idx) == [data |-> item, generator_idx |-> generator_idx]

\* heap_lt that compares the items directly in both directions
heap_lt_unwrapped(e1, e2, reverse_order) ==
    \/ str_lt(e1.data, e2.data, 1)
    \/ e1.data = e2.data /\ e1.generator_idx < e2.generator_idx

\* the order heapq keeps the entries in: tuples (data, i) compared item
\* first; in reverse order the item is wrapped in HeapqReverseDataWrapper,
\* whose __lt__ is the item's __gt__ and which is equal to itself only
heap_lt(e1, e2, reverse_order) ==
    IF reverse_order THEN str_lt(e2.data, e1.data, 1)
    ELSE \/ str_lt(e1.data, e2.data, 1)
         \/ e1.data = e2.data /\ e1.generator_idx < e2.generator_idx

\* heappop: the entry that no other entry is less than
heappop(words_heap, reverse_order) ==
    CHOOSE e \in words_heap :
        \A f \in words_heap \ {e} : ~heap_lt(f, e, reverse_order)

\* the first pulls: the head of every generator that has an item; drained[i + 1]
\* holds every item generator i yields
first_pulls(drained) ==
    {HeapEntry(drained[i + 1][1], i) : i \in {j \in 0..(Len(drained) - 1) :
                                                Len(drained[j + 1]) > 0}}

\* the pop loop of _yield_all_data: consumed[i + 1] is the number of items
\* pulled from generator i so far
RECURSIVE merge_loop(_, _, _, _, _)
merge_loop(drained, words_heap, consumed, reverse_order, yielded) ==
    IF words_heap = {} THEN yielded
    ELSE LET top == heappop(words_heap, reverse_order)
             g   == top.generator_idx + 1
         IN  IF consumed[g] < Len(drained[g])
             THEN merge_loop(drained,
                             (words_heap \ {top}) \cup
                                {HeapEntry(drained[g][consumed[g] + 1], top.generator_idx)},
                             [consumed EXCEPT ![g] = consumed[g] + 1],
                             reverse_order, Append(yielded, top.data))
             ELSE merge_loop(drained, words_heap \ {top}, consumed,
                             reverse_order, Append(yielded, top.data))

\* chain_from that takes the generators in ascending length whatever the
\* direction
RECURSIVE chain_from_ascending(_, _, _, _)
chain_from_ascending(drained, k, reverse_range, yielded) ==
    IF k > Len(reverse_range) THEN yielded
    ELSE chain_from_ascending(drained, k + 1, reverse_range,
                              yielded \o drained[k])

\* the length-sorted branch: the generators one after the other
RECURSIVE chain_from(_, _, _, _)
chain_from(drained, k, reverse_range, yielded) ==
    IF k > Len(reverse_range) THEN yielded
    ELSE chain_from(drained, k + 1, reverse_range,
                    yielded \o drained[reverse_range[k]])

\* every item of _yield_all_data over the per-length generators of words;
\* generators[i + 1] is the outcome of draining the generator for length i + 1
_yield_all_data(generators, reverse_order, word_lenght_sort) ==
    LET max_word_len == get_max_word_len
        failed == {i \in 1..max_word_len : generators[i].exc # "none"}
        drained == [i \in 1..max_word_len |-> generators[i].val]
    IN  IF failed # {}
        THEN generators[CHOOSE i \in failed : TRUE]
        ELSE IF word_lenght_sort
        THEN Return(chain_from(drained, 1,
                               IF reverse_order THEN py_range(max_word_len, 0, -1)
                               ELSE py_range(1, max_word_len + 1, 1),
                               <<>>))
        ELSE Return(merge_loop(drained, first_pulls(drained),
                               [i \in 1..max_word_len |->
                                   IF Len(drained[i]) > 0 THEN 1 ELSE 0],
                               reverse_order, <<>>))

yield_words(reverse_order, word_lenght_sort) ==
    _yield_all_data([i \in 1..get_max_word_len |->
                        yield_words_with_length(i, reverse_order)],
                    reverse_order, word_lenght_sort)

----------------------------------------------------------------------------
(* Generator objects: the frame a generator keeps between two pulls *)

\* the frame of a generator object that has not run yet; a frame holds the
\* arguments, where the body stands (pc: "created" before the first pull,
\* "yielded" when suspended at a yield, "popping" at the test of the merge
\* loop, "finished" after the body has ended), its local variables, every
\* item it has yielded so far (out) and the exception that ended it
Frame(method, word_length, reverse_order, word_lenght_sort) ==
    [method |-> method, word_length |-> word_length,
     reverse_order |-> reverse_order, word_lenght_sort |-> word_lenght_sort,
     pc |-> "created", blocks |-> <<>>, k |-> 0, last_word |-> <<None>>,
     generators |-> <<>>, words_heap |-> {}, generator_idx |-> None,
     out |-> <<>>, exc |-> "none"]

\* the outcomes of next(generator): an item, StopIteration, or an exception
Yielded(f, item) ==
    [frame |-> [f EXCEPT !.pc = "yielded", !.out = Append(f.out, item)],
     kind |-> "item", item |-> item]

Stopped(f) ==
    [frame |-> [f EXCEPT !.pc = "finished"], kind |-> "stop", item |-> None]

Raised(f, e) ==
    [frame |-> [f EXCEPT !.pc = "finished", !.exc = e], kind |-> "raise",
     item |-> None]

\* the for loop of a per-length generator from block k of its range to its
\* next yield; the assignment last_word = word, which follows the yield at
\* the next pull, is taken together with the yield
RECURSIVE next_block(_)
next_block(f) ==
    IF f.k >= Len(f.blocks) THEN Stopped(f)
    ELSE LET i == f.blocks[f.k + 1]
             word == _unpack_word_in_data_array(i, f.word_length)
             j == i + f.word_length
             word_pos == get_data_array_value_at(j)
             word_level == get_data_array_value_at(j + 1)
             word_level_float == byte_int_level_to_float(word_level)
             g == [f EXCEPT !.k = f.k + 1]
         IN  IF word = <<IndexError>> THEN Raised(g, "IndexError")
             ELSE IF f.method = "yield_words_with_length"
             THEN IF word # f.last_word
                  THEN Yielded([g EXCEPT !.last_word = word], word)
                  ELSE next_block(g)
             ELSE IF word_pos = IndexError THEN Raised(g, "IndexError")
             ELSE IF f.method = "yield_word_pos_id_with_length"
             THEN Yielded(g, <<word, word_pos>>)
             ELSE IF word_level = IndexError THEN Raised(g, "IndexError")
             ELSE IF word_level_float = ValueError THEN Raised(g, "ValueError")
             ELSE Yielded(g, <<word, word_pos, word_level_float>>)

\* next() on the generator of yield_words_with_length,
\* yield_word_pos_id_with_length or yield_word_pos_level_with_length
generator_next(f) ==
    IF f.pc = "finished" THEN Stopped(f)
    ELSE IF f.pc = "created"
    THEN IF ~is_word_len_valid(f.word_length) THEN Stopped(f)
         ELSE next_block([f EXCEPT !.blocks =
                  _get_word_yield_start_block_range(f.word_length, f.reverse_order)])
    ELSE next_block(f)

\* the generators list of _yield_all_data for yield_words
new_generators(f) ==
    [i \in 1..get_max_word_len |->
        Frame("yield_words_with_length", i, f.reverse_order, FALSE)]

\* the first pull of the merge up to the test of its while loop: every
\* generator is pulled once, in order, and its item pushed
merge_start(f) ==
    LET generators == new_generators(f)
        pulls == [i \in 1..Len(generators) |-> generator_next(generators[i])]
        failed == {i \in 1..Len(generators) : pulls[i].kind = "raise"}
        first == CHOOSE i \in failed : \A j \in failed : i <= j
    IN  IF failed # {}
        THEN [f EXCEPT !.pc = "finished", !.exc = pulls[first].frame.exc,
                       !.generators = [i \in 1..Len(generators) |->
                           IF i <= first THEN pulls[i].frame ELSE generators[i]]]
        ELSE [f EXCEPT !.pc = "popping",
                       !.generators = [i \in 1..Len(generators) |-> pulls[i].frame],
                       !.words_heap = {HeapEntry(pulls[i].item, i - 1) :
                                          i \in {j \in 1..Len(generators) :
                                                    pulls[j].kind = "item"}}]

\* merge_refill that pulls every generator, not only the one the yielded
\* item came from
merge_refill_all(f) ==
    LET pulls == [i \in 1..Len(f.generators) |-> generator_next(f.generators[i])]
    IN  [f EXCEPT !.pc = "popping",
                  !.generators = [i \in 1..Len(f.generators) |-> pulls[i].frame],
                  !.words_heap = f.words_heap \cup
                      {HeapEntry(pulls[i].item, i - 1) :
                          i \in {j \in 1..Len(f.generators) : pulls[j].kind = "item"}}]

\* the merge resumed after a yield, up to the test of its while loop: the
\* generator the yielded item came from is pulled and its item pushed
merge_refill(f) ==
    LET g == f.generator_idx + 1
        pull == generator_next(f.generators[g])
        generators == [f.generators EXCEPT ![g] = pull.frame]
    IN  IF pull.kind = "raise"
        THEN [f EXCEPT !.pc = "finished", !.exc = pull.frame.exc,
                       !.generators = generators]
        ELSE IF pull.kind = "item"
        THEN [f EXCEPT !.pc = "popping", !.generators = generators,
                       !.words_heap = f.words_heap \cup
                                         {HeapEntry(pull.item, f.generator_idx)}]
        ELSE [f EXCEPT !.pc = "popping", !.generators = generators]

\* the test of the while loop and, when the heap is not empty, the pop and
\* the yield
merge_pop(f) ==
    IF f.words_heap = {} THEN Stopped(f)
    ELSE LET top == heappop(f.words_heap, f.reverse_order)
         IN  Yielded([f EXCEPT !.words_heap = f.words_heap \ {top},
                               !.generator_idx = top.generator_idx],
                     top.data)

\* next() on the generator of yield_words in length-sorted mode: k lengths
\* of reverse_range have been started and generators holds the generator of
\* the length under way
RECURSIVE chain_next(_)
chain_next(f) ==
    LET max_word_len == get_max_word_len
        reverse_range == IF f.reverse_order THEN py_range(max_word_len, 0, -1)
                         ELSE py_range(1, max_word_len + 1, 1)
    IN  IF f.pc = "finished" THEN Stopped(f)
        ELSE IF f.generators = <<>>
        THEN IF f.k >= Len(reverse_range) THEN Stopped(f)
             ELSE chain_next([f EXCEPT
                      !.k = f.k + 1,
                      !.generators = <<Frame("yield_words_with_length",
                                             reverse_range[f.k + 1],
                                             f.reverse_order, FALSE)>>])
        ELSE LET pull == generator_next(f.generators[1])
             IN  IF pull.kind = "item"
                 THEN Yielded([f EXCEPT !.generators = <<pull.frame>>], pull.item)
                 ELSE IF pull.kind = "raise"
                 THEN Raised([f EXCEPT !.generators = <<pull.frame>>], pull.frame.exc)
                 ELSE chain_next([f EXCEPT !.generators = <<>>])

----------------------------------------------------------------------------
(* CEFRDataProcessor: totals *)

\* the loop of get_total_words from this length on
RECURSIVE total_words_from(_, _, _)
total_words_from(length, max_word_len, counter) ==
    IF length > max_word_len THEN Return(counter)
    ELSE LET c == get_word_count_for_length(length)
         IN  IF c.exc # "none" THEN c
             ELSE total_words_from(length + 1, max_word_len, counter + c.val)

get_total_words == total_words_from(1, get_max_word_len, 0)

get_word_pos_count_for_length(word_length) ==
    IF ~is_word_len_valid(word_length) THEN Return(0)
    ELSE LET segment_start == get_wlp_value_at(word_length - 1)
             segment_end   == get_wlp_value_at(word_length)
             data_block_len == word_length + 2
         IN  Return((segment_end - segment_start) \div data_block_len)

----------------------------------------------------------------------------
(* Queries *)

\* the words looked up: every word over Letters of a valid length, the
\* empty word and a word one byte longer than the longest valid length
QueryWords ==
    UNION {SeqsOfLen(Letters, n) : n \in 0..MaxWordLen}
      \cup {[j \in 1..(MaxWordLen + 1) |-> 97]}

\* the category ids looked up
QueryPos == {0, 1, 2, 27, PosInf}

IsWordInDatabase ==
    /\ op = "idle"
    /\ \E word \in QueryWords :
          /\ op' = "is_word_in_database"
          /\ arg' = [word |-> word]
          /\ ret' = is_word_in_database(word)
    /\ UNCHANGED <<wlp, data, gens>>

\* the operation returns to its caller
Done ==
    /\ op # "idle"
    /\ op' = "idle"
    /\ arg' = NoArg
    /\ ret' = Return(0)
    /\ UNCHANGED <<wlp, data, gens>>

GetWordLevelForPosId ==
    /\ op = "idle"
    /\ \E word \in QueryWords, pos_tag_id \in QueryPos, avg \in BOOLEAN :
          /\ op' = "get_word_level_for_pos_id"
          /\ arg' = [word |-> word, pos_tag_id |-> pos_tag_id, avg |-> avg]
          /\ ret' = get_word_level_for_pos_id(word, pos_tag_id, avg)
    /\ UNCHANGED <<wlp, data, gens>>

IsWordPosIdDatabase ==
    /\ op = "idle"
    /\ \E word \in QueryWords, pos_tag_id \in QueryPos :
          /\ op' = "is_word_pos_id_database"
          /\ arg' = [word |-> word, pos_tag_id |-> pos_tag_id]
          /\ ret' = is_word_pos_id_database(word, pos_tag_id)
    /\ UNCHANGED <<wlp, data, gens>>

GetAllPosForWord ==
    /\ op = "idle"
    /\ \E word \in QueryWords :
          /\ op' = "get_all_pos_for_word"
          /\ arg' = [word |-> word]
          /\ ret' = get_all_pos_for_word(word)
    /\ UNCHANGED <<wlp, data, gens>>

GetPosLevelDictForWord ==
    /\ op = "idle"
    /\ \E word \in QueryWords :
          /\ op' = "get_pos_level_dict_for_word"
          /\ arg' = [word |-> word]
          /\ ret' = get_pos_level_dict_for_word(word)
    /\ UNCHANGED <<wlp, data, gens>>

\* the lengths asked for: every valid length and the invalid ones around them
QueryLens == (-1)..(MaxWordLen + 2)

IsWordLenValid ==
    /\ op = "idle"
    /\ \E word_len \in QueryLens :
          /\ op' = "is_word_len_valid"
          /\ arg' = [word_length |-> word_len]
          /\ ret' = Return(is_word_len_valid(word_len))
    /\ UNCHANGED <<wlp, data, gens>>

YieldWordsWithLength ==
    /\ op = "idle"
    /\ \E word_length \in QueryLens, reverse_order \in BOOLEAN :
          /\ op' = "yield_words_with_length"
          /\ arg' = [word_length |-> word_length, reverse_order |-> reverse_order]
          /\ ret' = yield_words_with_length(word_length, reverse_order)
    /\ UNCHANGED <<wlp, data, gens>>

YieldWordPosIdWithLength ==
    /\ op = "idle"
    /\ \E word_length \in QueryLens, reverse_order \in BOOLEAN :
          /\ op' = "yield_word_pos_id_with_length"
          /\ arg' = [word_length |-> word_length, reverse_order |-> reverse_order]
          /\ ret' = yield_word_pos_id_with_length(word_length, reverse_order)
    /\ UNCHANGED <<wlp, data, gens>>

YieldWordPosLevelWithLength ==
    /\ op = "idle"
    /\ \E word_length \in QueryLens, reverse_order \in BOOLEAN :
          /\ op' = "yield_word_pos_level_with_length"
          /\ arg' = [word_length |-> word_length, reverse_order |-> reverse_order]
          /\ ret' = yield_word_pos_level_with_length(word_length, reverse_order)
    /\ UNCHANGED <<wlp, data, gens>>

GetWordCountForLength ==
    /\ op = "idle"
    /\ \E word_length \in QueryLens :
          /\ op' = "get_word_count_for_length"
          /\ arg' = [word_length |-> word_length]
          /\ ret' = get_word_count_for_length(word_length)
    /\ UNCHANGED <<wlp, data, gens>>

GetWordPosCountForLength ==
    /\ op = "idle"
    /\ \E word_length \in QueryLens :
          /\ op' = "get_word_pos_count_for_length"
          /\ arg' = [word_length |-> word_length]
          /\ ret' = get_word_pos_count_for_length(word_length)
    /\ UNCHANGED <<wlp, data, gens>>

YieldWords ==
    /\ op = "idle"
    /\ \E reverse_order \in BOOLEAN, word_lenght_sort \in BOOLEAN :
          /\ op' = "yield_words"
          /\ arg' = [reverse_order |-> reverse_order,
                     word_lenght_sort |-> word_lenght_sort]
          /\ ret' = yield_words(reverse_order, word_lenght_sort)
    /\ UNCHANGED <<wlp, data, gens>>

GetTotalWords ==
    /\ op = "idle"
    /\ op' = "get_total_words"
    /\ arg' = NoArg
    /\ ret' = get_total_words
    /\ UNCHANGED <<wlp, data, gens>>

\* the indexes asked of the accessors: every position of the buffers, the
\* first index past them, and the negative indexes that count from the end
\* of a partition table
QueryIndexes == (-(MaxWordLen + 2))..(MaxDataLen + 1)

GetWlpValueAt ==
    /\ op = "idle"
    /\ \E i \in QueryIndexes :
          /\ op' = "get_wlp_value_at"
          /\ arg' = [i |-> i]
          /\ ret' = Outcome(get_wlp_value_at(i))
    /\ UNCHANGED <<wlp, data, gens>>

GetDataArrayValueAt ==
    /\ op = "idle"
    /\ \E i \in QueryIndexes :
          /\ op' = "get_data_array_value_at"
          /\ arg' = [i |-> i]
          /\ ret' = Outcome(get_data_array_value_at(i))
    /\ UNCHANGED <<wlp, data, gens>>

Next ==
    \/ IsWordInDatabase
    \/ GetWlpValueAt
    \/ GetTotalWords
    \/ YieldWords
    \/ GetDataArrayValueAt
    \/ IsWordLenValid
    \/ YieldWordsWithLength
    \/ YieldWordPosIdWithLength
    \/ YieldWordPosLevelWithLength
    \/ GetWordCountForLength
    \/ GetWordPosCountForLength
    \/ GetAllPosForWord
    \/ GetPosLevelDictForWord
    \/ GetWordLevelForPosId
    \/ IsWordPosIdDatabase
    \/ Done

Spec == Init /\ [][Next]_vars

----------------------------------------------------------------------------
(* The validator on arbitrary buffers *)

\* partition tables handed to the validator: every table of at most
\* MaxTableLen offsets within 0..MaxRawLen, and all-zero tables at and just
\* above the largest valid length
RawTables ==
    UNION {SeqsOfLen(0..MaxRawLen, n) : n \in 0..MaxTableLen}
      \cup {[k \in 1..n |-> 0] : n \in {255, 256}}

\* bytes of the raw data arrays: 0 is a category and a level but no letter,
\* 'a' is a letter and a level but no category
RawBytes == {0, 97}

\* single blocks of word length 1 with bytes at the edges of the valid ranges
EdgeBlocks ==
    {<<c, p, v>> : c \in {96, 97, 122, 123}, p \in {0, 27, 28}, v \in {0, 250, 251, 255}}

RawData ==
    UNION {SeqsOfLen(RawBytes, n) : n \in 0..MaxRawLen} \cup EdgeBlocks

InitV ==
    /\ wlp \in RawTables
    /\ data \in RawData
    /\ op = "idle"
    /\ arg = NoArg
    /\ ret = Return(0)
    /\ gens = <<>>

InitT ==
    /\ wlp \in RawTables
    /\ data = <<>>
    /\ op = "idle"
    /\ arg = NoArg
    /\ ret = Return(0)
    /\ gens = <<>>

\* the lengths asked of is_wlp_length_valid
QueryTableLens == {-1, 0, 1, 2, 3, 254, 255, 256, 257}

IsWlpLengthValid ==
    /\ op = "idle"
    /\ \E wlp_length \in QueryTableLens :
          /\ op' = "is_wlp_length_valid"
          /\ arg' = [wlp_length |-> wlp_length]
          /\ ret' = Return(is_wlp_length_valid(wlp_length))
    /\ UNCHANGED <<wlp, data, gens>>

IsWlpArrayValid ==
    /\ op = "idle"
    /\ op' = "is_wlp_array_valid"
    /\ arg' = NoArg
    /\ ret' = Return(is_wlp_array_valid(wlp))
    /\ UNCHANGED <<wlp, data, gens>>

IsDataValid ==
    /\ op = "idle"
    /\ op' = "is_data_valid"
    /\ arg' = NoArg
    /\ ret' = is_data_valid(wlp, data)
    /\ UNCHANGED <<wlp, data, gens>>

NextV ==
    \/ IsDataValid
    \/ Done

SpecV == InitV /\ [][NextV]_vars

NextT ==
    \/ IsWlpLengthValid
    \/ IsWlpArrayValid
    \/ Done

SpecT == InitT /\ [][NextT]_vars

----------------------------------------------------------------------------
(* The Reader on arbitrary files *)

\* the most table entries a file holds, and the most bytes after them
MaxFileEntries == 3

MaxFileData == 4

\* the offsets written into the tables of the files
FileOffsets == {0, 3, 4}

\* the length-prefix bytes of the files: around the smallest valid length,
\* and the largest one
FilePrefixes == 0..MaxFileEntries \cup {255}

\* four bytes of one table entry below 256
pack_I(v) == <<v, 0, 0, 0>>

RECURSIVE pack_table(_)
pack_table(t) == IF t = <<>> THEN <<>> ELSE pack_I(Head(t)) \o pack_table(Tail(t))

\* whole files: a prefix byte, a table of at most entries offsets (of any
\* length, not only the one the prefix byte announces) and at most bytes
\* data bytes
WholeFiles(entries, bytes) ==
    {<<n>> \o pack_table(t) \o d :
        n \in FilePrefixes,
        t \in UNION {SeqsOfLen(FileOffsets, k) : k \in 0..entries},
        d \in UNION {SeqsOfLen(RawBytes, k) : k \in 0..bytes}}

\* the files handed to the Reader: whole files and every truncation of one
Files(entries, bytes) ==
    UNION {{SubSeq(f, 1, k) : k \in 0..Len(f)} : f \in WholeFiles(entries, bytes)}

\* before a construction: self._wlp = array.array('I'), self._data_array =
\* bytearray()
InitR ==
    /\ wlp = <<>>
    /\ data = <<>>
    /\ op = "idle"
    /\ arg = NoArg
    /\ ret = Return(0)
    /\ gens = <<>>

NewCEFRDataReader ==
    /\ op = "idle"
    /\ \E file \in Files(MaxFileEntries, MaxFileData) :
          LET reader == __init__(file)
          IN  /\ op' = "CEFRDataReader"
              /\ arg' = [file |-> file]
              /\ wlp' = reader.wlp
              /\ data' = reader.data
              /\ ret' = reader.ret
    /\ UNCHANGED gens

\* the constructed object, or the exception, reaches the caller; the next
\* construction starts from empty buffers
Dropped ==
    /\ op = "CEFRDataReader"
    /\ op' = "idle"
    /\ arg' = NoArg
    /\ ret' = Return(0)
    /\ wlp' = <<>>
    /\ data' = <<>>
    /\ UNCHANGED gens

NextR ==
    \/ NewCEFRDataReader
    \/ Dropped

SpecR == InitR /\ [][NextR]_vars

----------------------------------------------------------------------------
(* The static conversions, which read no buffer *)

\* the packed levels handed to byte_int_level_to_float reach this far below
\* 0 and above 255
MaxLevelMargin == 2

QueryLevels == (-MaxLevelMargin)..(255 + MaxLevelMargin)

ByteIntLevelToFloat ==
    /\ op = "idle"
    /\ \E level \in QueryLevels :
          /\ op' = "byte_int_level_to_float"
          /\ arg' = [level |-> level]
          /\ ret' = Outcome(byte_int_level_to_float(level))
    /\ UNCHANGED <<wlp, data, gens>>

NextS ==
    \/ ByteIntLevelToFloat
    \/ Done

SpecS == InitR /\ [][NextS]_vars

----------------------------------------------------------------------------
(* POSTag and CEFRAnalyzer.get_pos_tag_id *)

\* the member names of the enumeration in the order of their values 0..27
POSTagNames ==
    <<"CC", "CD", "DT", "IN", "JJ", "JJR", "JJS", "MD", "NN", "NNS", "NNP",
      "NNPS", "PRP", "RB", "RBR", "RBS", "RP", "TO", "UH", "VB", "VBD", "VBG",
      "VBN", "VBP", "VBZ", "WDT", "WP", "WRB">>

\* POSTag.__members__: the member of each name
POSTagMembers ==
    [k \in 1..Len(POSTagNames) |-> [name |-> POSTagNames[k], value |-> k - 1]]

\* POSTag(tag_id): the member with this value, ValueError when there is none
POSTag(tag_id) ==
    IF \E k \in 1..Len(POSTagMembers) : POSTagMembers[k].value = tag_id
    THEN Return(POSTagMembers[CHOOSE k \in 1..Len(POSTagMembers) :
                                  POSTagMembers[k].value = tag_id])
    ELSE Raise("ValueError")

\* str(tag) and int(tag)
__str__(tag) == tag.name

__int__(tag) == tag.value

\* tag == other for two members
__eq__(tag, other) == tag.value = other.value

\* POSTag.__members__.get(tag_name): the member, or None
members_get(tag_name) ==
    IF \E k \in 1..Len(POSTagMembers) : POSTagMembers[k].name = tag_name
    THEN POSTagMembers[CHOOSE k \in 1..Len(POSTagMembers) :
                           POSTagMembers[k].name = tag_name]
    ELSE [name |-> "", value |-> None]

from_tag_name(tag_name) ==
    LET tag == members_get(tag_name)
    IN  IF tag.value = None THEN Raise("ValueError") ELSE Return(tag)

get_id_by_tag_name(tag_name) ==
    IF members_get(tag_name).value = None THEN Raise("ValueError")
    ELSE Return(members_get(tag_name).value)

\* get_pos_tag_id that lets the ValueError of an unknown name through
get_pos_tag_id_uncaught(pos_tag) ==
    IF pos_tag.isinstance = "POSTag" THEN Return(__int__(pos_tag.tag))
    ELSE get_id_by_tag_name(pos_tag.str)

\* CEFRAnalyzer.get_pos_tag_id of a member (isinstance "POSTag") or a string
get_pos_tag_id(pos_tag) ==
    IF pos_tag.isinstance = "POSTag" THEN Return(__int__(pos_tag.tag))
    ELSE LET id == get_id_by_tag_name(pos_tag.str)
         IN  IF id.exc = "ValueError" THEN Return(None) ELSE id

\* how far outside 0..27 the tag ids asked for go
MaxTagMargin == 2

QueryTagIds == (-MaxTagMargin)..(get_total_tags - 1 + MaxTagMargin)

\* the member names and strings that are no member name
QueryTagNames ==
    {POSTagNames[k] : k \in 1..Len(POSTagNames)}
      \cup {"", "INVALID", "&^%@**@!$()", "cc", "CC ", "0", "POSTag.CC"}

NewPOSTag ==
    /\ op = "idle"
    /\ \E tag_id \in QueryTagIds :
          /\ op' = "POSTag"
          /\ arg' = [tag_id |-> tag_id]
          /\ ret' = POSTag(tag_id)
    /\ UNCHANGED <<wlp, data, gens>>

FromTagName ==
    /\ op = "idle"
    /\ \E tag_name \in QueryTagNames :
          /\ op' = "from_tag_name"
          /\ arg' = [tag_name |-> tag_name]
          /\ ret' = from_tag_name(tag_name)
    /\ UNCHANGED <<wlp, data, gens>>

GetIdByTagName ==
    /\ op = "idle"
    /\ \E tag_name \in QueryTagNames :
          /\ op' = "get_id_by_tag_name"
          /\ arg' = [tag_name |-> tag_name]
          /\ ret' = get_id_by_tag_name(tag_name)
    /\ UNCHANGED <<wlp, data, gens>>

\* the arguments of get_pos_tag_id: every member and every string asked for
QueryPosTags ==
    {[isinstance |-> "POSTag", tag |-> POSTagMembers[k]] : k \in 1..Len(POSTagMembers)}
      \cup {[isinstance |-> "str", str |-> n] : n \in QueryTagNames}

GetPosTagId ==
    /\ op = "idle"
    /\ \E pos_tag \in QueryPosTags :
          /\ op' = "get_pos_tag_id"
          /\ arg' = [pos_tag |-> pos_tag]
          /\ ret' = get_pos_tag_id(pos_tag)
    /\ UNCHANGED <<wlp, data, gens>>

NextP ==
    \/ NewPOSTag
    \/ FromTagName
    \/ GetIdByTagName
    \/ GetPosTagId
    \/ Done

SpecP == InitR /\ [][NextP]_vars

----------------------------------------------------------------------------
(* CEFRSpaCyAnalyzer.analize_doc *)

\* the most tokens of a document
MaxTokens == 3

\* the tokens of the documents, as (text, tag_): a word, the possessive,
\* an apostrophe-s that is not tagged as possessive, a number and an
\* abbreviation
TokenKinds ==
    {<<"York", "NNP">>, <<"'s", "POS">>, <<"'s", "VBZ">>, <<"42", "CD">>,
     <<"e.g.", "NN">>}

\* len(text), text.strip().lower() and word.isalpha() on these texts
text_len(text) ==
    CASE text = "York" -> 4 [] text = "'s" -> 2 [] text = "42" -> 2
      [] text = "e.g." -> 4

lower(word) == IF word = "York" THEN "york" ELSE word

isalpha(word) == word \in {"York", "york", "example"}

\* abbreviation_mapping of the analyzer: None for a word it does not hold
abbreviation_mapping_get(word_lower) ==
    IF word_lower = "e.g." THEN "example" ELSE "None"

\* the documents: tokens one space apart, token.idx the offset of the text
RECURSIVE token_idx(_, _)
token_idx(kinds, k) ==
    IF k = 1 THEN 0
    ELSE token_idx(kinds, k - 1) + text_len(kinds[k - 1][1]) + 1

Doc(kinds) ==
    [k \in 1..Len(kinds) |->
        [text |-> kinds[k][1], tag_ |-> kinds[k][2], idx |-> token_idx(kinds, k)]]

EntityLabels == {"GPE", "DATE"}

\* doc.ents: spans of one or more whole tokens, in the order of the text
\* and not overlapping, each with a label
RECURSIVE SpanListsFrom(_, _)
SpanListsFrom(start, n) ==
    {<<>>} \cup
    UNION {{<<[first |-> ab[1], last |-> ab[2], label_ |-> label]>> \o rest :
               label \in EntityLabels, rest \in SpanListsFrom(ab[2] + 1, n)} :
           ab \in {x \in (start..n) \X (start..n) : x[1] <= x[2]}}

SpanLists(n) == SpanListsFrom(1, n)

Ents(doc, spans) ==
    [j \in 1..Len(spans) |->
        [start_char |-> doc[spans[j].first].idx,
         end_char   |-> doc[spans[j].last].idx + text_len(doc[spans[j].last].text),
         label_     |-> spans[j].label_]]

\* _get_next_entity on the iterator of doc.ents that has given e entities:
\* the position of the next entity, 0 for None
_get_next_entity(ents, e) == IF e < Len(ents) THEN e + 1 ELSE 0

\* while current_entity and token_start > current_entity.start_char
RECURSIVE pass_entities(_, _, _)
pass_entities(ents, e, token_start) ==
    IF e # 0 /\ token_start > ents[e].start_char
    THEN pass_entities(ents, _get_next_entity(ents, e), token_start)
    ELSE e

\* the body of the loop over the tokens for one token, with current_entity
\* at position e: the tuple appended to nlp_tokens and the new position
analize_token(token, ents, e, entity_types_to_skip) ==
    LET token_start == token.idx
        token_end   == token_start + text_len(token.text)
        current_entity == IF e # 0 THEN pass_entities(ents, e, token_start) ELSE 0
        in_entity ==
            /\ current_entity # 0
            /\ ents[current_entity].label_ \in entity_types_to_skip
            /\ ents[current_entity].start_char <= token_start
            /\ token_start < ents[current_entity].end_char
        word_lower == lower(token.text)
        word_pos   == token.tag_
        abbreviation_form == abbreviation_mapping_get(word_lower)
        word == IF abbreviation_form # "None" THEN abbreviation_form ELSE token.text
        to_skip ==
            IF word_pos = "POS" /\ word_lower = "'s" THEN TRUE
            ELSE in_entity \/ ~isalpha(word)
    IN  [e |-> current_entity,
         token |-> [word |-> IF word_pos = "POS" /\ word_lower = "'s"
                             THEN token.text ELSE word,
                    word_pos |-> word_pos, is_skipped |-> to_skip,
                    token_start |-> token_start, token_end |-> token_end]]

RECURSIVE analize_from(_, _, _, _, _, _)
analize_from(doc, ents, entity_types_to_skip, k, e, nlp_tokens) ==
    IF k > Len(doc) THEN nlp_tokens
    ELSE LET t == analize_token(doc[k], ents, e, entity_types_to_skip)
         IN  analize_from(doc, ents, entity_types_to_skip, k + 1, t.e,
                          Append(nlp_tokens, t.token))

\* analize_doc without the levels, which it fetches from the analyzer for
\* the tokens that are not skipped
analize_doc(doc, ents, entity_types_to_skip) ==
    LET current_entity == IF entity_types_to_skip # {}
                          THEN _get_next_entity(ents, 0) ELSE 0
    IN  analize_from(doc, ents, entity_types_to_skip, 1, current_entity, <<>>)

EntityTypesToSkip == {{}, {"GPE"}, {"GPE", "DATE"}}

AnalizeDoc ==
    /\ op = "idle"
    /\ \E n \in 0..MaxTokens :
          \E spans \in SpanLists(n), kinds \in [1..n -> TokenKinds],
             entity_types_to_skip \in EntityTypesToSkip :
              /\ op' = "analize_doc"
              /\ arg' = [doc |-> Doc(kinds), ents |-> Ents(Doc(kinds), spans),
                         entity_types_to_skip |-> entity_types_to_skip]
              /\ ret' = Return(analize_doc(Doc(kinds), Ents(Doc(kinds), spans),
                                           entity_types_to_skip))
    /\ UNCHANGED <<wlp, data, gens>>

NextA ==
    \/ AnalizeDoc
    \/ Done

SpecA == InitR /\ [][NextA]_vars

----------------------------------------------------------------------------
(* Readers that pull from their own generators of one engine, in any order *)

\* the two readers of the engine, each holding at most one generator at a
\* time
Readers == {1, 2}

\* the most data bytes of an index that two readers iterate over
MaxIterDataLen == 7

\* the level bytes of the indexes iterated over
IterLevels == {125}

\* the level bytes of a generated file
FileLevels(f) ==
    {f.data[s + L + 2] :
        <<L, s>> \in {Ls \in (1..(Len(f.wlp) - 1)) \X (0..Len(f.data)) :
                        /\ f.wlp[Ls[1]] <= Ls[2]
                        /\ Ls[2] < f.wlp[Ls[1] + 1]
                        /\ (Ls[2] - f.wlp[Ls[1]]) % (Ls[1] + 2) = 0}}

\* a reader that holds no generator
NoGen == [Frame("none", 0, FALSE, FALSE) EXCEPT !.pc = "none"]

\* a reader whose generator was let go of while suspended: the generator
\* object has been closed at its yield and its frame freed
Closed == [NoGen EXCEPT !.pc = "closed"]

InitI ==
    /\ \E f \in IndexFiles(MaxWordLen) :
          /\ Passed(is_data_valid(f.wlp, f.data))
          /\ Len(f.data) <= MaxIterDataLen
          /\ FileLevels(f) \subseteq IterLevels
          /\ wlp = f.wlp
          /\ data = f.data
    /\ op = "idle"
    /\ arg = NoArg
    /\ ret = Return(0)
    /\ gens = [r \in Readers |-> NoGen]

WithLengthMethods ==
    {"yield_words_with_length", "yield_word_pos_id_with_length",
     "yield_word_pos_level_with_length"}

\* the word lengths generators are asked for: the valid ones and one
\* invalid length on either side
IterLens == 0..(MaxWordLen + 1)

\* calling a generator function returns the generator object; its body has
\* not started
NewWithLengthGenerator(r, lens) ==
    /\ gens[r].pc \in {"none", "closed"}
    /\ \E method \in WithLengthMethods, word_length \in lens,
          reverse_order \in BOOLEAN :
          gens' = [gens EXCEPT ![r] = Frame(method, word_length, reverse_order, FALSE)]
    /\ UNCHANGED <<wlp, data, op, arg, ret>>

NewYieldWords(r) ==
    /\ gens[r].pc \in {"none", "closed"}
    /\ \E reverse_order \in BOOLEAN, word_lenght_sort \in BOOLEAN :
          gens' = [gens EXCEPT ![r] =
                      Frame("yield_words", 0, reverse_order, word_lenght_sort)]
    /\ UNCHANGED <<wlp, data, op, arg, ret>>

\* NextWithLength over one cursor for all generators of a method: the pull
\* moves every suspended generator of the same method to the block reached
NextWithLength_shared_cursor(r) ==
    /\ gens[r].method \in WithLengthMethods
    /\ gens[r].pc \in {"created", "yielded"}
    /\ LET pulled == generator_next(gens[r]).frame
       IN  gens' = [q \in DOMAIN gens |->
                       IF q = r THEN pulled
                       ELSE IF /\ gens[q].method = pulled.method
                               /\ gens[q].pc = "yielded"
                       THEN [gens[q] EXCEPT !.k = pulled.k]
                       ELSE gens[q]]
    /\ UNCHANGED <<wlp, data, op, arg, ret>>

\* next() on a per-length generator that has not ended
NextWithLength(r) ==
    /\ gens[r].method \in WithLengthMethods
    /\ gens[r].pc \in {"created", "yielded"}
    /\ gens' = [gens EXCEPT ![r] = generator_next(gens[r]).frame]
    /\ UNCHANGED <<wlp, data, op, arg, ret>>

\* the merge runs from its start, or from its last yield, to the test of
\* its while loop
MergeRefill(r) ==
    /\ gens[r].method = "yield_words"
    /\ ~gens[r].word_lenght_sort
    /\ gens[r].pc \in {"created", "yielded"}
    /\ gens' = [gens EXCEPT ![r] =
                   IF gens[r].pc = "created" THEN merge_start(gens[r])
                   ELSE merge_refill(gens[r])]
    /\ UNCHANGED <<wlp, data, op, arg, ret>>

\* the merge pops and yields, or ends
MergePop(r) ==
    /\ gens[r].method = "yield_words"
    /\ ~gens[r].word_lenght_sort
    /\ gens[r].pc = "popping"
    /\ gens' = [gens EXCEPT ![r] = merge_pop(gens[r]).frame]
    /\ UNCHANGED <<wlp, data, op, arg, ret>>

\* next() on the generator of yield_words in length-sorted mode
NextLengthSorted(r) ==
    /\ gens[r].method = "yield_words"
    /\ gens[r].word_lenght_sort
    /\ gens[r].pc \in {"created", "yielded"}
    /\ gens' = [gens EXCEPT ![r] = chain_next(gens[r]).frame]
    /\ UNCHANGED <<wlp, data, op, arg, ret>>

\* Abandon with a cleanup that gives the buffers of the reader back
Abandon_releasing(r) ==
    /\ gens[r].pc \notin {"none", "closed"}
    /\ gens' = [gens EXCEPT ![r] =
                   IF gens[r].pc = "finished" THEN NoGen ELSE Closed]
    /\ wlp' = IF gens[r].pc = "finished" THEN wlp ELSE <<0>>
    /\ data' = IF gens[r].pc = "finished" THEN data ELSE <<>>
    /\ UNCHANGED <<op, arg, ret>>

\* the reader stops pulling, at any point of the iteration, and lets go of
\* the generator object: one that has not ended is closed where it stands,
\* which runs no code of the engine (no yield of its bodies stands inside
\* a try or with block)
Abandon(r) ==
    /\ gens[r].pc \notin {"none", "closed"}
    /\ gens' = [gens EXCEPT ![r] =
                   IF gens[r].pc = "finished" THEN NoGen ELSE Closed]
    /\ UNCHANGED <<wlp, data, op, arg, ret>>

\* a point lookup by a reader while generators are suspended, for the first
\* word there can be
IterQueryWords == {<<97>>}

\* the word lengths two readers ask generators for
SharedIterLens == 0..MaxWordLen

LookupWhileIterating ==
    /\ op = "idle"
    /\ \E word \in IterQueryWords :
          /\ op' = "is_word_in_database"
          /\ arg' = [word |-> word]
          /\ ret' = is_word_in_database(word)
    /\ UNCHANGED <<wlp, data, gens>>

NextI ==
    \/ \E r \in Readers : NewWithLengthGenerator(r, SharedIterLens)
    \/ \E r \in Readers : NewYieldWords(r)
    \/ \E r \in Readers : NextWithLength(r)
    \/ \E r \in Readers : MergeRefill(r)
    \/ \E r \in Readers : MergePop(r)
    \/ \E r \in Readers : NextLengthSorted(r)
    \/ \E r \in Readers : Abandon(r)
    \/ LookupWhileIterating
    \/ Done

SpecI == InitI /\ [][NextI]_vars

\* one reader alone: the reader Readers starts from
InitG ==
    /\ \E f \in IndexFiles(MaxWordLen) :
          /\ Passed(is_data_valid(f.wlp, f.data))
          /\ FileLevels(f) \subseteq IterLevels
          /\ wlp = f.wlp
          /\ data = f.data
    /\ op = "idle"
    /\ arg = NoArg
    /\ ret = Return(0)
    /\ gens = [r \in {1} |-> NoGen]

NextG ==
    \/ NewWithLengthGenerator(1, IterLens)
    \/ NewYieldWords(1)
    \/ NextWithLength(1)
    \/ MergeRefill(1)
    \/ MergePop(1)
    \/ NextLengthSorted(1)
    \/ Abandon(1)
    \/ IsWordInDatabase
    \/ GetWordCountForLength
    \/ Done

SpecG == InitG /\ [][NextG]_vars

----------------------------------------------------------------------------
(* Point lookups taken one loop iteration at a time *)

LookupMethods ==
    {"_get_first_word_match_pos", "_get_int_word_level_for_pos_id",
     "_get_word_data_range"}

\* the frame of a point lookup between two iterations of its loops: pc is
\* "called" before the first statement, the name of the loop it stands in
\* ("search" for the while loop of the binary search), or "returned"
LookupFrame(method, word_packed, pos_tag_id, avg_level_not_found_pos) ==
    [method |-> method, word_packed |-> word_packed, pos_tag_id |-> pos_tag_id,
     avg_level_not_found_pos |-> avg_level_not_found_pos, pc |-> "called",
     l |-> 0, r |-> 0, first_match |-> None, m |-> 0, i |-> 0,
     st |-> ScanState(None, 0, 0), start_range |-> 0,
     ret |-> DataRange("None", <<>>)]

\* the frame after the return of a value: a range as it is, an integer (a
\* position, a level, None or the IndexError) as a result of kind "int"
LookupReturned(f, value) ==
    [f EXCEPT !.pc = "returned",
              !.ret = IF f.method = "_get_word_data_range" THEN value
                      ELSE [kind |-> "int", positions |-> <<value>>]]

\* an IndexError of the Reader leaves the method
LookupRaised(f) ==
    LookupReturned(f, IF f.method = "_get_word_data_range"
                      THEN DataRange("IndexError", <<>>) ELSE IndexError)

\* the statements between the return of _get_first_word_match_pos and the
\* first scan loop of the calling method
after_first_match(f, first_match) ==
    LET word_packed_len == Len(f.word_packed)
        i     == first_match + word_packed_len
        p     == get_data_array_value_at(i)
        level == get_data_array_value_at(i + 1)
        g     == [f EXCEPT !.first_match = first_match, !.m = first_match]
    IN  IF f.method = "_get_first_word_match_pos" THEN LookupReturned(g, first_match)
        ELSE IF f.method = "_get_word_data_range"
        THEN IF first_match = -1 THEN LookupReturned(g, DataRange("None", <<>>))
             ELSE [g EXCEPT !.i = i, !.pc = "backward_range"]
        ELSE IF first_match = -1 THEN LookupReturned(g, None)
        ELSE IF p = IndexError \/ level = IndexError THEN LookupRaised(g)
        ELSE IF p = f.pos_tag_id THEN LookupReturned(g, level)
        ELSE [g EXCEPT !.st = ScanState(None, 1, level),
                       !.pc = IF p > f.pos_tag_id THEN "backward_match"
                              ELSE "forward_match"]

\* search_step whose interval keeps the block it has just compared
search_step_keeping_block(f) ==
    IF ~(f.l <= f.r) THEN after_first_match(f, -1)
    ELSE LET data_block_len == Len(f.word_packed) + 2
             m == midpoint(f.l, f.r, data_block_len)
             c == compare_block(f.word_packed, m, 1)
         IN  CASE c = "eq" -> after_first_match(f, m)
               [] c = "IndexError" -> LookupRaised(f)
               [] c = "lt" -> [f EXCEPT !.l = m]
               [] c = "gt" -> [f EXCEPT !.r = m]

\* the test of the while loop of _get_first_word_match_pos and one
\* iteration of it
search_step(f) ==
    IF ~(f.l <= f.r) THEN after_first_match(f, -1)
    ELSE LET data_block_len == Len(f.word_packed) + 2
             m == midpoint(f.l, f.r, data_block_len)
             c == compare_block(f.word_packed, m, 1)
         IN  CASE c = "eq" -> after_first_match(f, m)
               [] c = "IndexError" -> LookupRaised(f)
               [] c = "lt" -> [f EXCEPT !.l = m + data_block_len]
               [] c = "gt" -> [f EXCEPT !.r = m - data_block_len]

\* the end of _get_int_word_level_for_pos_id
finish_level(f) ==
    LookupReturned(f, IF f.avg_level_not_found_pos
                      THEN round_div(f.st.level_accumulator, f.st.founded_pos)
                      ELSE None)

\* one iteration of a scan loop of _get_int_word_level_for_pos_id: the
\* backward loop taken when the landed category is greater ("backward_match"),
\* the forward loop taken otherwise ("forward_match") and the backward loop
\* that follows the forward one ("backward_sum")
level_scan_step(f) ==
    LET word_packed_len == Len(f.word_packed)
        data_block_len  == word_packed_len + 2
        start_segment_pos == get_wlp_value_at(word_packed_len - 1)
        end_segment_pos   == get_wlp_value_at(word_packed_len)
        m == IF f.pc = "forward_match" THEN f.m + data_block_len
             ELSE f.m - data_block_len
        outside == IF f.pc = "forward_match" THEN m >= end_segment_pos
                   ELSE m < start_segment_pos
        i     == scan_block(f.word_packed, m, 1)
        p     == get_data_array_value_at(i)
        level == get_data_array_value_at(i + 1)
        left  == IF f.pc = "forward_match"
                 THEN [f EXCEPT !.m = f.first_match, !.pc = "backward_sum"]
                 ELSE finish_level([f EXCEPT !.m = f.first_match])
        more  == [f EXCEPT !.m = m,
                           !.st = ScanState(None, f.st.founded_pos + 1,
                                            f.st.level_accumulator + level)]
    IN  IF outside THEN left
        ELSE IF i = IndexError THEN LookupRaised(f)
        ELSE IF i # m + word_packed_len THEN left
        ELSE IF level = IndexError THEN LookupRaised(f)
        ELSE IF f.pc = "backward_sum" THEN more
        ELSE IF p = IndexError THEN LookupRaised(f)
        ELSE IF p = f.pos_tag_id THEN LookupReturned(f, level)
        ELSE more

\* one iteration of a scan loop of _get_word_data_range
range_scan_step(f) ==
    LET word_packed_len == Len(f.word_packed)
        data_block_len  == word_packed_len + 2
        start_segment_pos == get_wlp_value_at(word_packed_len - 1)
        end_segment_pos   == get_wlp_value_at(word_packed_len)
        m == IF f.pc = "forward_range" THEN f.m + data_block_len
             ELSE f.m - data_block_len
        outside == IF f.pc = "forward_range" THEN m >= end_segment_pos
                   ELSE m < start_segment_pos
        scanned == scan_block(f.word_packed, m, 1)
        i == IF outside THEN f.i ELSE scanned
        end_range == i - data_block_len + word_packed_len + 1
        left == IF f.pc = "backward_range"
                THEN [f EXCEPT !.start_range = m + data_block_len + word_packed_len,
                               !.i = i, !.m = f.first_match, !.pc = "forward_range"]
                ELSE LookupReturned([f EXCEPT !.i = i, !.m = m],
                         DataRange("range",
                                   py_range(f.start_range, end_range, data_block_len)))
    IN  IF outside THEN left
        ELSE IF scanned = IndexError THEN LookupRaised(f)
        ELSE IF scanned = m + word_packed_len THEN [f EXCEPT !.m = m, !.i = i]
        ELSE left

\* the lookup runs to the next test of a loop, or to its return
lookup_step(f) ==
    CASE f.pc = "called" ->
             [f EXCEPT !.l = get_wlp_value_at(Len(f.word_packed) - 1),
                       !.r = get_wlp_value_at(Len(f.word_packed)),
                       !.pc = "search"]
      [] f.pc = "search" -> search_step(f)
      [] f.pc \in {"backward_match", "forward_match", "backward_sum"} ->
             level_scan_step(f)
      [] f.pc \in {"backward_range", "forward_range"} -> range_scan_step(f)

\* a caller hands a word of valid length to one of the three methods
CallLookup ==
    /\ gens[1].pc = "none"
    /\ \E method \in LookupMethods, word \in QueryWords :
          /\ is_word_len_valid(Len(word))
          /\ \E pos_tag_id \in IF method = "_get_int_word_level_for_pos_id"
                                THEN QueryPos ELSE {None},
                avg \in IF method = "_get_int_word_level_for_pos_id"
                        THEN BOOLEAN ELSE {FALSE} :
                gens' = [gens EXCEPT ![1] =
                            LookupFrame(method, pack_word(word), pos_tag_id, avg)]
    /\ UNCHANGED <<wlp, data, op, arg, ret>>

LookupStep ==
    /\ gens[1].method \in LookupMethods
    /\ gens[1].pc # "returned"
    /\ gens' = [gens EXCEPT ![1] = lookup_step(gens[1])]
    /\ UNCHANGED <<wlp, data, op, arg, ret>>

\* the caller takes the result
LookupReturn ==
    /\ gens[1].method \in LookupMethods
    /\ gens[1].pc = "returned"
    /\ gens' = [gens EXCEPT ![1] = NoGen]
    /\ UNCHANGED <<wlp, data, op, arg, ret>>

NextL ==
    \/ CallLookup
    \/ LookupStep
    \/ LookupReturn

SpecL == InitG /\ [][NextL]_vars

\* a lookup that was called keeps running: nothing in it waits
SpecLF == SpecL /\ WF_vars(LookupStep)


----------------------------------------------------------------------------
(* What the index holds, read off the buffers block by block *)

\* start positions of the blocks of the segment for word length L
SegmentBlocks(L) ==
    {s \in wlp[L]..(wlp[L + 1] - 1) : (s - wlp[L]) % (L + 2) = 0}

\* the word bytes, the category byte and the level byte of the block at s
BlockWord(s, L) == SubSeq(data, s + 1, s + L)

BlockPos(s, L) == data[s + L + 1]

BlockLevel(s, L) == data[s + L + 2]

\* the word's run: the blocks of its segment that hold the word
RunBlocks(word) ==
    {s \in SegmentBlocks(Len(word)) : BlockWord(s, Len(word)) = word}

\* the categories that have a block for the word
RunPos(word) == {BlockPos(s, Len(word)) : s \in RunBlocks(word)}

\* the block of the word with category c, when there is one
PosBlock(word, c) ==
    CHOOSE s \in RunBlocks(word) : BlockPos(s, Len(word)) = c

RECURSIVE SumLevels(_, _)
SumLevels(S, L) ==
    IF S = {} THEN 0
    ELSE LET s == CHOOSE x \in S : TRUE
         IN  BlockLevel(s, L) + SumLevels(S \ {s}, L)

\* the rounded mean of the packed levels of all blocks of the word's run
RunMean(word) ==
    round_div(SumLevels(RunBlocks(word), Len(word)), Cardinality(RunBlocks(word)))

\* packed / 50 + 1, in fiftieths
Decoded(packed) == packed + 50

ValidLen(word) == 1 <= Len(word) /\ Len(word) <= Len(wlp) - 1

\* every block of the word's run has a packed level within 0..250, the
\* levels that decode to 1.0..6.0
RunDecodable(word) ==
    \A s \in RunBlocks(word) : BlockLevel(s, Len(word)) <= 250

LookupOps ==
    {"is_word_in_database", "get_word_level_for_pos_id",
     "get_all_pos_for_word", "get_pos_level_dict_for_word"}

----------------------------------------------------------------------------
(* Claims *)

\* C1: whenever is_word_in_database returns for a word of valid length, it
\* returns True exactly when the segment for the word's length holds a block
\* with the word's bytes; a block outside that segment never makes a match.
C1_MembershipExact ==
    (op = "is_word_in_database" /\ ValidLen(arg.word) /\ ret.exc = "none") =>
        ret.val = (RunBlocks(arg.word) # {})

\* C2: for a word of valid length that has no block in its segment, the four
\* lookups complete without raising; the Reader's IndexError is never seen.
C2_AbsentWordNeverRaises ==
    (op \in LookupOps /\ ValidLen(arg.word) /\ RunBlocks(arg.word) = {}) =>
        ret.exc = "none"

\* C3: for a word of valid length whose blocks hold levels within 0..250 and
\* a category id c in 0..27, get_word_level_for_pos_id(word, c, False)
\* returns the decoded level of the block (word, c) when it exists and None
\* when it does not, and is_word_pos_id_database(word, c) is True exactly
\* when it exists.
C3_LevelOfCategory ==
    /\ (/\ op = "get_word_level_for_pos_id"
        /\ ValidLen(arg.word) /\ RunDecodable(arg.word)
        /\ arg.pos_tag_id \in 0..27 /\ ~arg.avg) =>
           /\ ret.exc = "none"
           /\ ret.val = IF arg.pos_tag_id \in RunPos(arg.word)
                        THEN Decoded(BlockLevel(PosBlock(arg.word, arg.pos_tag_id),
                                                Len(arg.word)))
                        ELSE None
    /\ (/\ op = "is_word_pos_id_database"
        /\ ValidLen(arg.word) /\ RunDecodable(arg.word)
        /\ arg.pos_tag_id \in 0..27) =>
           /\ ret.exc = "none"
           /\ ret.val = (arg.pos_tag_id \in RunPos(arg.word))

\* C4: for a word present in the index with levels within 0..250,
\* get_pos_level_dict_for_word has exactly one entry per category that has a
\* block for the word, and each entry is the value
\* get_word_level_for_pos_id(word, c, False) returns.
C4_DictCoversRun ==
    (op = "get_pos_level_dict_for_word" /\ ValidLen(arg.word)
        /\ RunBlocks(arg.word) # {} /\ RunDecodable(arg.word)) =>
        /\ ret.exc = "none"
        /\ DOMAIN ret.val = RunPos(arg.word)
        /\ \A c \in DOMAIN ret.val :
              get_word_level_for_pos_id(arg.word, c, FALSE) = Return(ret.val[c])

\* C5: for a word present in the index with levels within 0..250 and a
\* category id c in 0..27 that has no block for the word,
\* get_word_level_for_pos_id(word, c, True) is the decoded rounded mean of
\* the packed levels of all blocks of the word's run.
C5_AverageOverWholeRun ==
    (/\ op = "get_word_level_for_pos_id"
     /\ ValidLen(arg.word) /\ RunBlocks(arg.word) # {} /\ RunDecodable(arg.word)
     /\ arg.pos_tag_id \in 0..27 /\ arg.pos_tag_id \notin RunPos(arg.word)
     /\ arg.avg) =>
        ret = Return(Decoded(RunMean(arg.word)))

\* C6: with the 'match none' sentinel as the category, for a word present in
\* the index with levels within 0..250 the averaging lookup returns the
\* decoded rounded mean of all blocks of the run and the plain lookup returns
\* None; for a word not in the index both return None.
C6_SentinelAverages ==
    (op = "get_word_level_for_pos_id" /\ ValidLen(arg.word)
        /\ RunDecodable(arg.word) /\ arg.pos_tag_id = PosInf) =>
        /\ ret.exc = "none"
        /\ ret.val = IF RunBlocks(arg.word) # {} /\ arg.avg
                     THEN Decoded(RunMean(arg.word))
                     ELSE None

\* the operations that take a word, and those that take a word length
WordOps == LookupOps \cup {"is_word_pos_id_database"}

LengthOps ==
    {"yield_words_with_length", "yield_word_pos_id_with_length",
     "yield_word_pos_level_with_length", "get_word_count_for_length",
     "get_word_pos_count_for_length"}

\* the value an operation returns for 'not found'
Absence(o) ==
    CASE o \in {"is_word_in_database", "is_word_pos_id_database"} -> Return(FALSE)
      [] o = "get_word_level_for_pos_id" -> Return(None)
      [] o \in {"get_all_pos_for_word", "get_pos_level_dict_for_word"} -> Return(<<>>)
      [] o \in {"get_word_count_for_length", "get_word_pos_count_for_length"} -> Return(0)
      [] OTHER -> Return(<<>>)

\* C7: is_word_len_valid(L) is True exactly for 1 <= L <= partition length
\* - 1, and for a word or a length outside that range no operation raises
\* and each returns its absence value: False, None, the empty list, the empty
\* dictionary, 0, or a traversal that yields nothing.
C7_InvalidLengthIsAbsence ==
    /\ op = "is_word_len_valid" =>
          ret = Return(1 <= arg.word_length /\ arg.word_length <= Len(wlp) - 1)
    /\ (op \in WordOps /\ ~(1 <= Len(arg.word) /\ Len(arg.word) <= Len(wlp) - 1)) =>
          ret = Absence(op)
    /\ (op \in LengthOps /\ ~(1 <= arg.word_length /\ arg.word_length <= Len(wlp) - 1)) =>
          ret = Absence(op)

\* a word of an invalid length was looked up with averaging on, in an index
\* whose first block starts with the word's first byte
C7_Witness ==
    /\ op = "get_word_level_for_pos_id"
    /\ Len(arg.word) = Len(wlp)
    /\ arg.avg
    /\ Len(data) > 0 /\ data[1] = arg.word[1]
    /\ ret = Return(None)

----------------------------------------------------------------------------
(* Claims about the validator *)

\* the table is accepted and the data array reaches its final offset, so that
\* every block of every segment lies inside the data array
WellSized == is_wlp_array_valid(wlp) /\ wlp[Len(wlp)] <= Len(data)

\* the segments of the table: the word lengths 1..Len(wlp) - 1
Segments == 1..(Len(wlp) - 1)

\* some block has a word byte that is no lowercase letter or a category
\* byte above 27
SomeBadWordOrPos ==
    \E L \in Segments : \E s \in SegmentBlocks(L) :
        \/ \E j \in 1..L : ~(97 <= BlockWord(s, L)[j] /\ BlockWord(s, L)[j] <= 122)
        \/ BlockPos(s, L) > 27

\* some block has a level byte above 250
SomeBadLevel ==
    \E L \in Segments : \E s \in SegmentBlocks(L) : BlockLevel(s, L) > 250

\* C8: is_data_valid returns False for every data array in which some block
\* inside a segment of a valid partition table has a level byte above 250.
C8_LevelAbove250Rejected ==
    (op = "is_data_valid" /\ WellSized /\ SomeBadLevel) => ret = Return(FALSE)

\* C9: is_data_valid returns False whenever the partition table is rejected
\* by is_wlp_array_valid, or the last table entry exceeds len(data), or some
\* block of some segment has a word byte outside a-z or a category byte
\* above 27; no segment and no block is skipped.
C9_BadBlockRejected ==
    (op = "is_data_valid" /\ (~WellSized \/ SomeBadWordOrPos)) => ret = Return(FALSE)

\* a table with two non-empty segments was accepted up to its last block,
\* whose category byte alone is out of range
C9_Witness ==
    /\ op = "is_data_valid"
    /\ WellSized
    /\ Len(wlp) = 3 /\ wlp[1] < wlp[2] /\ wlp[2] < wlp[3]
    /\ \E s \in SegmentBlocks(2) :
          /\ s + 4 = wlp[3]
          /\ BlockPos(s, 2) > 27
          /\ \A j \in 1..2 : BlockWord(s, 2)[j] \in 97..122
    /\ \A s \in SegmentBlocks(1) :
          BlockWord(s, 1)[1] \in 97..122 /\ BlockPos(s, 1) <= 27
    /\ ret = Return(FALSE)

\* C10: is_wlp_length_valid(n) is True iff 2 <= n <= 255, and
\* is_wlp_array_valid(table) is True iff 2 <= len(table) <= 255 and every
\* offset is at least its predecessor and exceeds it by a multiple of the
\* block size of its segment (k + 2 for the segment of word length k).
C10_TableValidity ==
    /\ op = "is_wlp_length_valid" =>
          ret = Return(2 <= arg.wlp_length /\ arg.wlp_length <= 255)
    /\ op = "is_wlp_array_valid" =>
          ret = Return(/\ 2 <= Len(wlp) /\ Len(wlp) <= 255
                       /\ \A k \in 1..(Len(wlp) - 1) :
                             /\ wlp[k + 1] >= wlp[k]
                             /\ \E q \in 0..wlp[k + 1] :
                                   wlp[k + 1] - wlp[k] = q * (k + 2))

\* a table with two non-empty segments of different block sizes was accepted
C10_Witness ==
    /\ op = "is_wlp_array_valid"
    /\ Len(wlp) = 3 /\ wlp[1] < wlp[2] /\ wlp[2] < wlp[3]
    /\ ret = Return(TRUE)

----------------------------------------------------------------------------
(* Reader construction *)

\* the length-prefix byte of the file handed to the constructor, None for an
\* empty file
PrefixByte == IF Len(arg.file) >= 1 THEN arg.file[1] ELSE None

\* C11: the constructor returns a Reader exactly when the length-prefix byte
\* N of the file satisfies 2 <= N <= 255 and is_data_valid is True on the
\* partition table and data array it has read; in every other case it raises,
\* so a Reader that exists always satisfies is_data_valid on its buffers
C11_ConstructedIffValid ==
    op = "CEFRDataReader" =>
        /\ ret.exc = "none" <=>
              /\ 2 <= PrefixByte
              /\ PrefixByte <= 255
              /\ Passed(is_data_valid(wlp, data))
        /\ ret.exc = "none" => ret.val = TRUE

\* a Reader is constructed on a file that holds at least one block
C11_Witness ==
    /\ op = "CEFRDataReader"
    /\ ret.exc = "none"
    /\ Len(data) > 0
    /\ wlp[Len(wlp)] > 0

\* C12: no truncated file is loaded: when the constructor returns a Reader,
\* the file held all N partition entries its prefix byte N announces
\* (get_wlp_len() = N) and at least as many data bytes as the final partition
\* offset
C12_TruncatedNeverLoaded ==
    (op = "CEFRDataReader" /\ ret.exc = "none") =>
        /\ Len(arg.file) >= 1 + 4 * PrefixByte
        /\ get_wlp_len = PrefixByte
        /\ Len(arg.file) - 1 - 4 * PrefixByte >= wlp[Len(wlp)]

----------------------------------------------------------------------------
(* Reader accessors *)

\* what C13 says of the value an accessor call leaves
C13_Result ==
    /\ op = "get_wlp_value_at" =>
          IF 0 <= arg.i /\ arg.i < Len(wlp)
          THEN ret = Return(wlp[arg.i + 1])
          ELSE ret = Raise("IndexError")
    /\ op = "get_data_array_value_at" =>
          IF 0 <= arg.i /\ arg.i < Len(data)
          THEN ret = Return(data[arg.i + 1])
          ELSE ret = Raise("IndexError")

\* C13: get_wlp_value_at(i) returns table[i] for 0 <= i < N and raises
\* IndexError for every other integer i, negative ones included (no wrapping
\* around); get_data_array_value_at(i) does the same on the data array; and
\* no accessor call changes the partition table or the data array
C13_AccessorsBoundsChecked ==
    /\ []C13_Result
    /\ [][op' \in {"get_wlp_value_at", "get_data_array_value_at"}
             => (wlp' = wlp /\ data' = data)]_vars

\* a negative index that Python's own indexing would have wrapped around
C13_Witness ==
    /\ op = "get_wlp_value_at"
    /\ arg.i < 0
    /\ -Len(wlp) <= arg.i
    /\ Len(data) > 0
    /\ ret = Raise("IndexError")

----------------------------------------------------------------------------
(* Level decoding *)

\* C14: byte_int_level_to_float(p) returns p/50 + 1 (here (p + 50) fiftieths),
\* a value in [1.0, 6.0], for every integer p in 0..250, with 0 -> 1.0 and
\* 250 -> 6.0 and strictly increasing in p; for every p outside 0..250 it
\* raises ValueError and never returns a clamped value
C14_DecodeOrRaise ==
    /\ op = "byte_int_level_to_float" =>
          IF 0 <= arg.level /\ arg.level <= 250
          THEN /\ ret = Return(arg.level + 50)
               /\ 1 * 50 <= ret.val /\ ret.val <= 6 * 50
               /\ arg.level = 0 => ret.val = 1 * 50
               /\ arg.level = 250 => ret.val = 6 * 50
               /\ arg.level > 0 =>
                     byte_int_level_to_float(arg.level - 1) < ret.val
          ELSE ret = Raise("ValueError")

\* the decoding of 251 has raised
C14_Witness ==
    /\ op = "byte_int_level_to_float"
    /\ arg.level = 251
    /\ ret.exc = "ValueError"

----------------------------------------------------------------------------
(* Levels the engine produces *)

\* a level in fiftieths within [1.0, 6.0]
InLevelRange(v) == 1 * 50 <= v /\ v <= 6 * 50

\* the operations that decode level bytes
LevelOps ==
    {"yield_word_pos_level_with_length", "get_pos_level_dict_for_word",
     "get_word_level_for_pos_id"}

\* C15: on a file the Reader has accepted, no operation that decodes levels
\* raises ValueError, and every level it produces lies in [1.0, 6.0]: every
\* item of yield_word_pos_level_with_length, every value of
\* get_pos_level_dict_for_word and every result of get_word_level_for_pos_id
\* other than None
C15_LevelsInRange ==
    /\ op \in LevelOps => ret.exc # "ValueError"
    /\ (op = "yield_word_pos_level_with_length" /\ ret.exc = "none") =>
          \A k \in 1..Len(ret.val) : InLevelRange(ret.val[k][3])
    /\ (op = "get_pos_level_dict_for_word" /\ ret.exc = "none") =>
          \A c \in DOMAIN ret.val : InLevelRange(ret.val[c])
    /\ (op = "get_word_level_for_pos_id" /\ ret.exc = "none" /\ ret.val # None) =>
          InLevelRange(ret.val)

----------------------------------------------------------------------------
(* Enumeration of one segment *)

\* a word length that has a segment
ValidLength(n) == 1 <= n /\ n <= Len(wlp) - 1

\* the words that have a block in the segment for word length L
SegmentWords(L) == {BlockWord(s, L) : s \in SegmentBlocks(L)}

\* the items of a sequence, as a set
Items(seq) == {seq[k] : k \in 1..Len(seq)}

\* the sequence back to front
Reversed(seq) == [k \in 1..Len(seq) |-> seq[Len(seq) + 1 - k]]

\* C16: on a sorted index, yield_words_with_length(L, reverse_order=False)
\* for a valid L yields strictly increasing words, so no word twice even
\* when it has several category blocks, and it yields every word that has a
\* block in the segment
C16_ForwardStrictlyIncreasing ==
    (/\ op = "yield_words_with_length"
     /\ ~arg.reverse_order
     /\ ValidLength(arg.word_length)) =>
        /\ ret.exc = "none"
        /\ \A k \in 1..(Len(ret.val) - 1) : LexLess(ret.val[k], ret.val[k + 1], 1)
        /\ Items(ret.val) = SegmentWords(arg.word_length)

\* a segment with two words, one of them with two category blocks
C16_Witness ==
    /\ op = "yield_words_with_length"
    /\ ~arg.reverse_order
    /\ ValidLength(arg.word_length)
    /\ Len(ret.val) = 2
    /\ Cardinality(SegmentBlocks(arg.word_length)) = 3

\* the block starts of the segment for L from the last block down to the first
RECURSIVE BlocksDescending(_)
BlocksDescending(S) ==
    IF S = {} THEN <<>>
    ELSE LET top == CHOOSE s \in S : \A t \in S : t <= s
         IN  <<top>> \o BlocksDescending(S \ {top})

\* C17: for a valid L, yield_words_with_length(L, reverse_order=True) yields
\* exactly the reverse of what reverse_order=False yields; the reverse block
\* traversal visits exactly the block starts of the segment from the last
\* block down to the first, and nothing when the segment is empty
C17_ReverseIsExactReverse ==
    (/\ op = "yield_words_with_length"
     /\ arg.reverse_order
     /\ ValidLength(arg.word_length)) =>
        /\ ret.exc = "none"
        /\ ret.val = Reversed(yield_words_with_length(arg.word_length, FALSE).val)
        /\ _get_word_yield_start_block_range(arg.word_length, TRUE)
              = BlocksDescending(SegmentBlocks(arg.word_length))
        /\ SegmentBlocks(arg.word_length) = {} => ret.val = <<>>

\* a reverse enumeration of two words, the later one with two category blocks
C17_Witness ==
    /\ op = "yield_words_with_length"
    /\ arg.reverse_order
    /\ ValidLength(arg.word_length)
    /\ Len(ret.val) = 2
    /\ Cardinality(SegmentBlocks(arg.word_length)) = 3
    /\ LexLess(ret.val[2], ret.val[1], 1)

\* the sum of f over the lengths 1..n
RECURSIVE SumOverLengths(_, _)
SumOverLengths(f, n) == IF n = 0 THEN 0 ELSE f[n] + SumOverLengths(f, n - 1)

\* C18: for a valid L, get_word_count_for_length(L) equals the number of
\* words yield_words_with_length(L) yields, which is the number of distinct
\* words of the segment: a block that differs from its predecessor only in
\* category or level is not counted; get_total_words() is the sum of the
\* counts over L = 1..max_word_len
C18_CountIsDistinctWords ==
    /\ (op = "get_word_count_for_length" /\ ValidLength(arg.word_length)) =>
          /\ ret.exc = "none"
          /\ ret.val = Len(yield_words_with_length(arg.word_length, FALSE).val)
          /\ ret.val = Cardinality(SegmentWords(arg.word_length))
    /\ op = "get_total_words" =>
          /\ ret.exc = "none"
          /\ ret.val = SumOverLengths([L \in 1..get_max_word_len |->
                                         Cardinality(SegmentWords(L))],
                                      get_max_word_len)

\* a count over a segment in which one word has two category blocks
C18_Witness ==
    /\ op = "get_word_count_for_length"
    /\ ValidLength(arg.word_length)
    /\ ret.val = 2
    /\ Cardinality(SegmentBlocks(arg.word_length)) = 3

\* the block starts of the segment for L in the order of a traversal
BlocksInOrder(L, reverse_order) ==
    IF reverse_order THEN BlocksDescending(SegmentBlocks(L))
    ELSE Reversed(BlocksDescending(SegmentBlocks(L)))

\* the number of blocks of the segment for L
BlockCount(L) == (wlp[L + 1] - wlp[L]) \div (L + 2)

\* what C19 says of a stream of (word, category, ...) items
StreamFollowsBlocks(L, reverse_order) ==
    /\ ret.exc = "none"
    /\ Len(ret.val) = BlockCount(L)
    /\ \A k \in 1..Len(ret.val) :
          LET s == BlocksInOrder(L, reverse_order)[k]
          IN  /\ ret.val[k][1] = BlockWord(s, L)
              /\ ret.val[k][2] = BlockPos(s, L)
    /\ {ret.val[k][1] : k \in 1..Len(ret.val)}
          = Items(yield_words_with_length(L, FALSE).val)

\* C19: for a valid L whose segment has n blocks,
\* get_word_pos_count_for_length(L) = n, and yield_word_pos_id_with_length(L)
\* and yield_word_pos_level_with_length(L) each yield exactly n items, item k
\* carrying the word and category of block k (of block n-1-k in reverse
\* order); the words of both streams are the words yield_words_with_length(L)
\* yields
C19_StreamsFollowBlocks ==
    /\ (op = "get_word_pos_count_for_length" /\ ValidLength(arg.word_length)) =>
          /\ ret = Return(BlockCount(arg.word_length))
          /\ ret.val = Cardinality(SegmentBlocks(arg.word_length))
    /\ (/\ op \in {"yield_word_pos_id_with_length", "yield_word_pos_level_with_length"}
        /\ ValidLength(arg.word_length)) =>
          StreamFollowsBlocks(arg.word_length, arg.reverse_order)

----------------------------------------------------------------------------
(* Enumeration across word lengths *)

\* every word that has a block in some segment
AllWords == UNION {SegmentWords(L) : L \in 1..get_max_word_len}

\* C20: on a sorted index, yield_words(reverse_order=False,
\* word_lenght_sort=False) yields a strictly increasing sequence in the
\* lexicographic order across all word lengths (a word precedes every longer
\* word it is a prefix of) that holds every distinct word exactly once, so
\* that it has get_total_words() items; with reverse_order=True the sequence
\* is strictly decreasing and has the same number of items
C20_MergedOrder ==
    (op = "yield_words" /\ ~arg.word_lenght_sort) =>
        /\ ret.exc = "none"
        /\ \A k \in 1..(Len(ret.val) - 1) :
              IF arg.reverse_order
              THEN str_lt(ret.val[k + 1], ret.val[k], 1)
              ELSE str_lt(ret.val[k], ret.val[k + 1], 1)
        /\ Items(ret.val) = AllWords
        /\ Return(Len(ret.val)) = get_total_words

\* a merge in which a word and a longer word it is a prefix of come out
\* next to each other, and a word of the shorter length after them
C20_Witness ==
    /\ op = "yield_words"
    /\ ~arg.word_lenght_sort
    /\ ~arg.reverse_order
    /\ Len(ret.val) = 3
    /\ Len(ret.val[1]) = 1
    /\ Len(ret.val[2]) = 2
    /\ Len(ret.val[3]) = 1

\* C21: in length-sorted mode, yield_words(reverse_order=False,
\* word_lenght_sort=True) yields words of non-decreasing length, strictly
\* increasing among consecutive words of equal length; with
\* reverse_order=True the lengths are non-increasing and consecutive words
\* of equal length strictly decreasing; in both directions the number of
\* items is get_total_words()
C21_LengthSortedOrder ==
    (op = "yield_words" /\ arg.word_lenght_sort) =>
        /\ ret.exc = "none"
        /\ \A k \in 1..(Len(ret.val) - 1) :
              LET a == ret.val[k]
                  b == ret.val[k + 1]
              IN  IF arg.reverse_order
                  THEN /\ Len(a) >= Len(b)
                       /\ Len(a) = Len(b) => LexLess(b, a, 1)
                  ELSE /\ Len(a) <= Len(b)
                       /\ Len(a) = Len(b) => LexLess(a, b, 1)
        /\ Return(Len(ret.val)) = get_total_words

\* a reverse length-sorted enumeration that passes from the longer words to
\* two words of the shorter length
C21_Witness ==
    /\ op = "yield_words"
    /\ arg.word_lenght_sort
    /\ arg.reverse_order
    /\ Len(ret.val) = 3
    /\ Len(ret.val[1]) = 2
    /\ Len(ret.val[2]) = 1
    /\ Len(ret.val[3]) = 1

IsPrefix(s, t) == Len(s) <= Len(t) /\ \A k \in 1..Len(s) : s[k] = t[k]

\* what the call that made frame f gives to a reader who drains it alone
Alone(f) ==
    CASE f.method = "yield_words_with_length" ->
             yield_words_with_length(f.word_length, f.reverse_order)
      [] f.method = "yield_word_pos_id_with_length" ->
             yield_word_pos_id_with_length(f.word_length, f.reverse_order)
      [] f.method = "yield_word_pos_level_with_length" ->
             yield_word_pos_level_with_length(f.word_length, f.reverse_order)
      [] f.method = "yield_words" ->
             yield_words(f.reverse_order, f.word_lenght_sort)

\* the frames of the generators the readers hold
Held(r) == gens[r].pc \in {"created", "yielded", "popping", "finished"}

\* frame f has yielded what the outcome alone allows so far
FrameAsAlone(f, alone) ==
    /\ alone.exc = "none"
    /\ f.exc = "none"
    /\ IsPrefix(f.out, alone.val)
    /\ (f.pc = "finished") => (f.out = alone.val)

C23_AsAlone ==
    /\ \A r \in Readers : Held(r) => FrameAsAlone(gens[r], Alone(gens[r]))
    /\ (op = "is_word_in_database") => (ret = is_word_in_database(arg.word))

\* C23: under every interleaving of the steps of two readers of one engine
\* (pulls of per-length and merged generators, forward and reverse, starts
\* and abandonments of generators, point lookups) each generator has
\* yielded a prefix of the sequence its call yields when drained alone, the
\* whole of it once it has ended, each lookup returns what it returns
\* alone, and a step of one reader leaves the generator of the other
\* reader as it was
C23_ReadersIndependent ==
    /\ []C23_AsAlone
    /\ [][\A r \in Readers, q \in Readers :
             (r # q /\ gens'[r] # gens[r]) => (gens'[q] = gens[q])]_vars

\* both readers are in mid-stream, one in a merge and one in a reverse
\* per-length iteration, while a lookup has returned
C23_Witness ==
    /\ gens[1].method = "yield_words"
    /\ ~gens[1].word_lenght_sort
    /\ gens[1].pc = "yielded"
    /\ Len(gens[1].out) < Len(Alone(gens[1]).val)
    /\ gens[2].method = "yield_words_with_length"
    /\ gens[2].reverse_order
    /\ gens[2].pc = "yielded"
    /\ Len(gens[2].out) < Len(Alone(gens[2]).val)
    /\ op = "is_word_in_database"

\* the starts of the blocks is_data_valid hands to validate_data_block when
\* no block fails: range(sector_start, sector_end, block_size) per sector
BlocksToValidate ==
    {<<s, 2 + k>> : <<k, s>> \in
        {ks \in (1..(Len(wlp) - 1)) \X (0..Len(data)) :
            /\ wlp[ks[1]] <= ks[2]
            /\ ks[2] < wlp[ks[1] + 1]
            /\ (ks[2] - wlp[ks[1]]) % (2 + ks[1]) = 0}}

\* C24: for every table of offsets, the empty one included, and every data
\* array, the empty one included, is_data_valid (which starts with
\* is_wlp_array_valid) returns a boolean and raises nothing; when the
\* table passes is_wlp_array_valid and ends inside the data, every block
\* handed to validate_data_block lies wholly inside the data array; and a
\* valid table of empty segments over an empty data array is accepted
C24_ValidatorTotal ==
    (op = "is_data_valid") =>
        /\ ret.exc = "none"
        /\ ret.val \in BOOLEAN
        /\ (~is_wlp_array_valid(wlp)) => (ret.val = FALSE)
        /\ (is_wlp_array_valid(wlp) /\ wlp[Len(wlp)] <= Len(data)) =>
              \A b \in BlocksToValidate : b[1] + b[2] <= Len(data)
        /\ (is_wlp_array_valid(wlp) /\ data = <<>>) =>
              (ret.val = (wlp[Len(wlp)] = 0))

\* a table whose last block ends with the last byte of the data is accepted
C24_Witness ==
    /\ op = "is_data_valid"
    /\ ret.exc = "none"
    /\ ret.val = TRUE
    /\ Len(wlp) = MaxTableLen
    /\ wlp[Len(wlp)] = Len(data)
    /\ Len(data) = MaxRawLen

\* the tag ids of the enumeration
TagIds == 0..(get_total_tags - 1)

\* C25: POSTag(i) is a member for every i in 0..27 and raises ValueError
\* for every other i; for a member, int() gives back i, from_tag_name of
\* its name gives an equal member, get_id_by_tag_name of its name gives i,
\* and get_pos_tag_id gives i for the member and for its name; for a string
\* that is no member name from_tag_name and get_id_by_tag_name raise
\* ValueError and get_pos_tag_id returns None
C25_TagsRoundTrip ==
    /\ Len(POSTagMembers) = get_total_tags
    /\ (op = "POSTag" /\ arg.tag_id \notin TagIds) => (ret = Raise("ValueError"))
    /\ (op = "POSTag" /\ arg.tag_id \in TagIds) =>
          /\ ret.exc = "none"
          /\ __int__(ret.val) = arg.tag_id
          /\ from_tag_name(__str__(ret.val)).exc = "none"
          /\ __eq__(from_tag_name(__str__(ret.val)).val, ret.val)
          /\ get_id_by_tag_name(__str__(ret.val)) = Return(arg.tag_id)
          /\ get_pos_tag_id([isinstance |-> "POSTag", tag |-> ret.val]) =
                Return(arg.tag_id)
          /\ get_pos_tag_id([isinstance |-> "str", str |-> __str__(ret.val)]) =
                Return(arg.tag_id)
    /\ (op \in {"from_tag_name", "get_id_by_tag_name"}) =>
          IF \E i \in TagIds : __str__(POSTag(i).val) = arg.tag_name
          THEN ret.exc = "none"
          ELSE ret = Raise("ValueError")
    /\ (op = "get_pos_tag_id") =>
          /\ ret.exc = "none"
          /\ IF arg.pos_tag.isinstance = "POSTag"
             THEN ret.val = arg.pos_tag.tag.value
             ELSE IF \E i \in TagIds : __str__(POSTag(i).val) = arg.pos_tag.str
             THEN __str__(POSTag(ret.val).val) = arg.pos_tag.str
             ELSE ret.val = None

\* get_pos_tag_id has returned None for a string that is no tag name
C25_Witness ==
    /\ op = "get_pos_tag_id"
    /\ arg.pos_tag.isinstance = "str"
    /\ arg.pos_tag.str = "cc"
    /\ ret = Return(None)

\* the categories at the positions of a range, in the order of the range
PosAt(positions) == [k \in 1..Len(positions) |-> data[positions[k] + 1]]

\* C26: for every word that has a block in its segment of a sorted index,
\* _get_word_data_range(word) is a range whose positions are exactly the
\* category bytes of the blocks of the word's run, in ascending order one
\* block apart, and get_all_pos_for_word(word) returns the categories at
\* these positions, a strictly ascending list of all categories of the
\* word; this for every place of the run in its segment, the segment end
\* and the segment start included
C26_RangeIsTheRun ==
    (op = "get_all_pos_for_word" /\ ValidLen(arg.word) /\ RunBlocks(arg.word) # {}) =>
        LET data_range == _get_word_data_range(arg.word)
            positions == data_range.positions
        IN  /\ data_range.kind = "range"
            /\ Items(positions) = {s + Len(arg.word) : s \in RunBlocks(arg.word)}
            /\ \A k \in 1..(Len(positions) - 1) :
                  positions[k + 1] = positions[k] + Len(arg.word) + 2
            /\ ret = Return(PosAt(positions))
            /\ Items(ret.val) = RunPos(arg.word)
            /\ \A k \in 1..(Len(ret.val) - 1) : ret.val[k] < ret.val[k + 1]

\* a lookup stands at the test of the search loop and will compare a block
Searching ==
    /\ gens[1].method \in LookupMethods
    /\ gens[1].pc = "search"
    /\ gens[1].l <= gens[1].r

\* the block the search compares next
NextMidpoint ==
    midpoint(gens[1].l, gens[1].r, Len(gens[1].word_packed) + 2)

\* C27: whenever the loop of _get_first_word_match_pos is about to compare
\* bytes for a word of valid length L, the midpoint m is the start of a
\* block of the segment for L: segment_start <= m < segment_end with
\* m - segment_start a multiple of L + 2, so that no byte at or after
\* segment_end and no block of another segment is read
C27_MidpointsInSegment ==
    Searching =>
        LET L == Len(gens[1].word_packed)
            m == NextMidpoint
        IN  /\ wlp[L] <= m
            /\ m < wlp[L + 1]
            /\ (m - wlp[L]) % (L + 2) = 0

\* the scan loops of the point lookups
ScanLoops ==
    {"backward_match", "forward_match", "backward_sum", "backward_range",
     "forward_range"}

\* an iteration of the search loop that does not return shrinks the
\* interval by at least one block, from the left or from the right
SearchShrinks ==
    (gens[1].pc = "search" /\ gens'[1].pc = "search") =>
        LET data_block_len == Len(gens[1].word_packed) + 2
        IN  /\ \/ gens'[1].l >= gens[1].l + data_block_len /\ gens'[1].r = gens[1].r
               \/ gens'[1].r <= gens[1].r - data_block_len /\ gens'[1].l = gens[1].l
            /\ gens'[1].r - gens'[1].l <= gens[1].r - gens[1].l - data_block_len

\* an iteration of a scan loop that stays in the loop has moved one block
\* outward to a block of the segment
ScanMovesOneBlock ==
    (gens[1].pc \in ScanLoops /\ gens'[1].pc = gens[1].pc) =>
        LET L == Len(gens[1].word_packed)
        IN  /\ gens'[1].m = IF gens[1].pc \in {"forward_match", "forward_range"}
                            THEN gens[1].m + (L + 2) ELSE gens[1].m - (L + 2)
            /\ wlp[L] <= gens'[1].m
            /\ gens'[1].m < wlp[L + 1]

\* C28: every point lookup that is called returns (a value or the Reader's
\* IndexError) after finitely many iterations: each iteration of the loop
\* of _get_first_word_match_pos that does not return moves l up or r down
\* by at least one block, and each iteration of a scan loop of
\* _get_int_word_level_for_pos_id and _get_word_data_range that does not
\* leave the loop moves m one block outward and stays inside the segment
C28_LookupsTerminate ==
    /\ [][SearchShrinks /\ ScanMovesOneBlock]_vars
    /\ (gens[1].method \in LookupMethods) ~> (gens[1].pc = "returned")

\* a range lookup has returned the range of a run after its search moved r
\* and both of its scans ran
C28_Witness ==
    /\ gens[1].method = "_get_word_data_range"
    /\ gens[1].pc = "returned"
    /\ gens[1].r < wlp[Len(gens[1].word_packed) + 1]
    /\ gens[1].ret.kind = "range"
    /\ Len(gens[1].ret.positions) >= 1

\* reader 1 holds the generator of a merge that has made its first pulls
Merging ==
    /\ gens[1].method = "yield_words"
    /\ ~gens[1].word_lenght_sort
    /\ gens[1].pc \in {"popping", "yielded", "finished"}

\* the heap holds, for each per-length generator, its current head when it
\* is suspended at a yield and that head has not been popped, and nothing
\* when it is exhausted or its head has just been popped and yielded
HeapHoldsHeads(f) ==
    /\ \A e \in f.words_heap : e.generator_idx + 1 \in 1..Len(f.generators)
    /\ \A i \in 1..Len(f.generators) :
          LET sub == f.generators[i]
              entries == {e \in f.words_heap : e.generator_idx = i - 1}
          IN  /\ sub.pc \in {"yielded", "finished"}
              /\ IF sub.pc = "yielded"
                     /\ ~(f.pc = "yielded" /\ f.generator_idx = i - 1)
                 THEN entries = {HeapEntry(sub.out[Len(sub.out)], i - 1)}
                 ELSE entries = {}

\* each item yielded is the least (the greatest in reverse mode) of all
\* words that had not been yielded before it
YieldedInOrder(f) ==
    \A n \in 1..Len(f.out) :
        \A w \in AllWords \ {f.out[k] : k \in 1..n} :
            /\ f.out[n] \in AllWords
            /\ IF f.reverse_order THEN str_lt(w, f.out[n], 1)
               ELSE str_lt(f.out[n], w, 1)

\* the merge ends when and only when every per-length generator is
\* exhausted, and has then yielded every word once
EndsWhenExhausted(f) ==
    /\ f.exc = "none"
    /\ (f.pc = "popping") =>
          ((f.words_heap = {}) <=>
              \A i \in 1..Len(f.generators) : f.generators[i].pc = "finished")
    /\ (f.pc = "finished") =>
          /\ \A i \in 1..Len(f.generators) : f.generators[i].pc = "finished"
          /\ f.words_heap = {}
          /\ Items(f.out) = AllWords
          /\ Len(f.out) = Cardinality(AllWords)

C29_MergeState ==
    Merging =>
        /\ Cardinality(gens[1].words_heap) <= get_max_word_len
        /\ HeapHoldsHeads(gens[1])
        /\ YieldedInOrder(gens[1])
        /\ EndsWhenExhausted(gens[1])

\* the step after a yield pulls the generator the yielded item came from,
\* once, and leaves every other generator where it stands
OnlySupplierAdvanced ==
    (Merging /\ gens[1].pc = "yielded" /\ gens'[1].pc = "popping") =>
        \A i \in 1..Len(gens[1].generators) :
            gens'[1].generators[i] =
                IF i = gens[1].generator_idx + 1
                THEN generator_next(gens[1].generators[i]).frame
                ELSE gens[1].generators[i]

\* C29: in the heap merge of _yield_all_data, at every pull the heap holds
\* at most one entry per word length, namely the current head of each
\* per-length generator that is not exhausted; each item yielded is the
\* minimum (the maximum in reverse mode) of all items not yielded before;
\* after a pop only the generator that supplied the popped item is
\* advanced; and the merge ends exactly when every per-length generator is
\* exhausted, having yielded every item of every generator once
C29_HeapMerge ==
    /\ []C29_MergeState
    /\ [][OnlySupplierAdvanced]_vars

\* a reverse merge stands at its loop test, after a yield and the refill
\* that followed it, with the heads of two lengths in the heap
C29_Witness ==
    /\ Merging
    /\ gens[1].reverse_order
    /\ gens[1].pc = "popping"
    /\ Cardinality(gens[1].words_heap) = 2
    /\ Len(gens[1].out) >= 1

\* token k of the document starts inside an entity whose label is skipped
InSkippedEntity(k) ==
    \E j \in 1..Len(arg.ents) :
        /\ arg.ents[j].label_ \in arg.entity_types_to_skip
        /\ arg.ents[j].start_char <= arg.doc[k].idx
        /\ arg.doc[k].idx < arg.ents[j].end_char

\* C30: analize_doc marks as skipped every token whose start offset lies
\* in [start_char, end_char) of an entity whose label is in
\* entity_types_to_skip, the later tokens of an entity of several tokens
\* as well as its first one and whatever entities and tokens precede; a
\* token outside every such entity is skipped exactly when it is the
\* possessive 's or, after abbreviation rewriting, is not alphabetic
C30_EntityTokensSkipped ==
    (op = "analize_doc") =>
        /\ Len(ret.val) = Len(arg.doc)
        /\ \A k \in 1..Len(arg.doc) :
              IF InSkippedEntity(k) THEN ret.val[k].is_skipped
              ELSE ret.val[k].is_skipped =
                     (\/ arg.doc[k].tag_ = "POS" /\ lower(arg.doc[k].text) = "'s"
                      \/ ~isalpha(ret.val[k].word))


============================================================================
